---- MODULE Spec2Model ----
(***************************************************************************)
(* Search Operation Orchestrator (SearchOrchestrator), its Operation Store *)
(* (SearchDatabase.search_operations), the Location Rotation Manager       *)
(* (LocationManager) and the search gateway (SearchEngineManager).         *)
(*                                                                         *)
(* Granularity: one action per stretch of code between two suspension      *)
(* points (await).  A call of an async database method runs its body when  *)
(* it is called; the caller resumes, or catches the rejection, in a later  *)
(* step.                                                                   *)
(***************************************************************************)
EXTENDS Integers, Sequences, FiniteSets, TLC

\* ---------------------------------------------------------------- bounds
MaxOps == 1          \* operations submitted in the run explored
NumLocs == 3         \* largest location catalog in the store at start
MaxResults == 1      \* results one engine call returns at most
MaxVariants == 1     \* expanded query variants the AI provider returns at most
MaxCancels == 1      \* cancelSearch invocations in one run of the server
MaxManagerCalls == 6 \* calls made on the LocationManager directly in one run
RateLimitPoints == 2 \* config.rateLimit: points of the rate limiter per window
MaxBatch == 3        \* results in a batch handed to deduplication or to filtering
MaxElapsed == 3      \* milliseconds since startTime when progress is asked for
MaxTerms == 2        \* query terms of more than two characters
MaxKeywords == 3     \* professional keywords found in title or snippet
MaxIndices == 2      \* entries of the relevantIndices list of a filter response
MaxOtherCalls == 1   \* LocationManager calls another running operation makes meanwhile
CatalogSize == 2     \* entries of the default catalog (defaultLocations)
MaxCallers == 3      \* first-use calls made on a LocationManager just constructed
ApolloPoints == 2    \* points of the Apollo rate limiter per window (1000 in the code)
MaxPerVariant == 2   \* results the gateway returns for one query variant at one location

\* ------------------------------------------------------ program constants
maxConsecutiveFailures == 3
DefaultMaxLocations == 10
DefaultDelay == 120000

Uuids == 1..(2 * MaxOps)   \* values uuidv4() hands out, in order of the calls
\* the URL of a search result: whether new URL(url) parses it, its scheme, host
\* and path (base), and its query string and fragment (query, 0: none)
Urls == [valid : BOOLEAN, base : {1, 2}, query : {0, 1}]
NoRecord == [status |-> "absent"]
Terminal == {"completed", "failed", "cancelled"}

Min(a, b) == IF a < b THEN a ELSE b

VARIABLES
  uuidCount,          \* number of uuidv4() values handed out so far
  operation,          \* the SearchOperation objects, by operation id
  activeOperations,   \* keys of SearchOrchestrator.activeOperations
  worker,             \* per operation: position and locals of its async task
  searchOperations,   \* rows of table search_operations, by row id
  locationRows,       \* rows of table locations, by location id
  locationQueue,      \* LocationManager.locationQueue
  blacklistTimers,    \* pending blacklist-expiry timers, per location id
  cancels,            \* cancelSearch invocations suspended at their await
  cancelCount,        \* cancelSearch invocations made so far
  lastCancel,         \* argument and outcome of the latest cancelSearch invocation
  env,                \* what is configured: primary engine, AI provider, Apollo
  ghost,              \* per operation: history needed to state the properties
  manager,            \* history of the calls made on the LocationManager directly
  rateLimiter,        \* GoogleSearchEngine.rateLimiter and the requests it let pass
  call,               \* the latest application of a function to an input, with its result
  seed,               \* LocationManager.initialized, the default rows of table locations,
                      \* and the calls that wait for initialize()
  apollo              \* ApolloAPIClient.rateLimiter per key, the requests sent to the
                      \* Apollo API, and the latest call with its result

vars == <<uuidCount, operation, activeOperations, worker, searchOperations,
          locationRows, locationQueue, blacklistTimers, cancels, cancelCount,
          lastCancel, env, ghost, manager, rateLimiter, call, seed, apollo>>

\* ------------------------------------------------------------ the store
\* SearchDatabase.insertSearchOperation: the row is keyed by a uuid the method
\* draws itself; the id of the operation passed in is not used.
InsertRowId(operationId, freshId) == freshId

RowOf(op) ==
  [status |-> op.status, totalLocations |-> op.totalLocations,
   searchedLocations |-> op.searchedLocations, totalResults |-> op.totalResults,
   progress |-> op.progress, currentLocation |-> op.currentLocation,
   error |-> op.error, ended |-> op.ended]

insertSearchOperation(rows, operationId, freshId, op) ==
  [rows EXCEPT ![InsertRowId(operationId, freshId)] = RowOf(op)]

\* UPDATE search_operations SET <the fields given> WHERE id = ?
updateSearchOperation(rows, id, updates) ==
  IF rows[id] = NoRecord THEN rows
  ELSE [rows EXCEPT ![id] =
          [f \in DOMAIN rows[id] |->
             IF f \in DOMAIN updates THEN updates[f] ELSE rows[id][f]]]

getSearchOperation(rows, id) == IF id \in DOMAIN rows THEN rows[id] ELSE NoRecord

\* ------------------------------------------------------- location store
\* success_rate is a REAL column: kept as the fraction <<numerator, denominator>>
\* the UPDATE computed, <<0, 1>> (DEFAULT 0.0) before the first search
RateGT(a, b) == a.rate[1] * b.rate[2] > b.rate[1] * a.rate[2]

\* the comparator of both sorts and of ORDER BY priority DESC, success_rate DESC
Before(a, b) ==
  \/ a.priority > b.priority
  \/ a.priority = b.priority /\ RateGT(a, b)

RECURSIVE InsertSorted(_, _)
InsertSorted(x, s) ==
  IF s = <<>> THEN <<x>>
  ELSE IF Before(x, Head(s)) THEN <<x>> \o s
  ELSE <<Head(s)>> \o InsertSorted(x, Tail(s))

\* Array.prototype.sort with the comparator above (stable)
RECURSIVE SortLocations(_)
SortLocations(s) ==
  IF s = <<>> THEN <<>>
  ELSE InsertSorted(s[Len(s)], SortLocations(SubSeq(s, 1, Len(s) - 1)))

LocIds == 1..NumLocs
\* priorities of the default catalog, in catalog order
DefaultPriority(l) == CASE l = 1 -> 10 [] l \in {2, 3} -> 9 [] OTHER -> 8

RECURSIVE RowsFrom(_, _)
RowsFrom(rows, l) ==
  IF l > NumLocs THEN <<>>
  ELSE (IF rows[l].present
        THEN <<[id |-> l, priority |-> rows[l].priority, rate |-> rows[l].rate,
                succ |-> rows[l].succ, total |-> rows[l].total]>>
        ELSE <<>>) \o RowsFrom(rows, l + 1)

\* SearchDatabase.getLocations(true): rows in table order, then ORDER BY
dbGetLocations(rows) == SortLocations(RowsFrom(rows, 1))

\* variant of updateLocationStats whose rate leaves out the search being recorded
updateLocationStatsBefore(rows, id, success) ==
  LET successValue == IF success THEN 1 ELSE 0
  IN IF ~rows[id].present THEN rows
     ELSE [rows EXCEPT ![id].total = @ + 1,
                       ![id].succ = @ + successValue,
                       ![id].rate = <<rows[id].succ, rows[id].total + 1>>]

\* SearchDatabase.updateLocationStats: every right-hand side of the UPDATE
\* reads the row as it was before the statement
updateLocationStats(rows, id, success) ==
  LET successValue == IF success THEN 1 ELSE 0
  IN IF ~rows[id].present THEN rows
     ELSE [rows EXCEPT ![id].total = @ + 1,
                       ![id].succ = @ + successValue,
                       ![id].rate = <<rows[id].succ + successValue, rows[id].total + 1>>]

RECURSIVE FilterSeq(_, _)
FilterSeq(s, bl) ==
  IF s = <<>> THEN <<>>
  ELSE (IF Head(s).id \in bl THEN <<>> ELSE <<Head(s)>>) \o FilterSeq(Tail(s), bl)

\* variant of getLocations that does not look at the blacklist
getLocationsUnfiltered(q, maxCount) ==
  IF maxCount > 0 THEN SubSeq(q.locations, 1, Min(maxCount, Len(q.locations)))
  ELSE q.locations

\* LocationManager.getLocations(maxCount), after initialize() has returned
getLocations(q, maxCount) ==
  LET locations == FilterSeq(q.locations, q.blacklistedLocations)
  IN IF maxCount > 0 THEN SubSeq(locations, 1, Min(maxCount, Len(locations)))
     ELSE locations

\* variant of Advance that stops at the end of the list
AdvanceNoWrap(currentIndex, length) == Min(currentIndex + 1, length - 1)

\* (currentIndex + 1) % locations.length
Advance(currentIndex, length) == (currentIndex + 1) % length

\* variant of Eligible that does not look at the blacklist
EligibleAlways(q, location) == TRUE

\* location && !blacklistedLocations.has(location.id)
Eligible(q, location) == location.id \notin q.blacklistedLocations

\* the while loop of getNextLocation with the cursor at currentIndex
RECURSIVE ScanFrom(_, _, _)
ScanFrom(q, currentIndex, attempts) ==
  IF attempts >= Len(q.locations)
  THEN [returned |-> 0, currentIndex |-> currentIndex, attempts |-> attempts]
  ELSE IF Eligible(q, q.locations[currentIndex + 1])
       THEN [returned |-> q.locations[currentIndex + 1].id,
             currentIndex |-> Advance(currentIndex, Len(q.locations)),
             attempts |-> attempts]
       ELSE ScanFrom(q, Advance(currentIndex, Len(q.locations)), attempts + 1)

\* LocationManager.getNextLocation, after initialize() has returned: the id
\* returned (0: null), the cursor left behind, the entries skipped
getNextLocation(q) ==
  IF Len(q.locations) = 0
  THEN [returned |-> 0, currentIndex |-> q.currentIndex, attempts |-> 0]
  ELSE ScanFrom(q, q.currentIndex, 0)

\* ------------------------------------------------------- search gateway
\* SearchEngineManager.normalizeUrl: protocol//host/pathname of a URL that
\* parses, the string itself of one that does not
normalizeUrl(url) == IF url.valid THEN [url EXCEPT !.query = 0] ELSE url

\* variant of deduplicateResults that compares the URLs as they are given
RECURSIVE deduplicateResultsRaw(_, _)
deduplicateResultsRaw(results, seen) ==
  IF results = <<>> THEN <<>>
  ELSE IF Head(results) \in seen THEN deduplicateResultsRaw(Tail(results), seen)
  ELSE <<Head(results)>> \o deduplicateResultsRaw(Tail(results), seen \cup {Head(results)})

\* SearchEngineManager.deduplicateResults, seen being the Set built so far
RECURSIVE deduplicateResults(_, _)
deduplicateResults(results, seen) ==
  IF results = <<>> THEN <<>>
  ELSE IF normalizeUrl(Head(results)) \in seen
       THEN deduplicateResults(Tail(results), seen)
       ELSE <<Head(results)>>
            \o deduplicateResults(Tail(results), seen \cup {normalizeUrl(Head(results))})

ResultLists == UNION {[1..n -> Urls] : n \in 0..MaxResults}
\* what one engine call does: a list of results, or an exception
EngineOutcomes == [kind : {"ok"}, results : ResultLists]
                  \cup {[kind |-> "throw", results |-> <<>>]}

\* SearchEngineManager.search(query) with the primary engine
ManagerSearch(primaryEngine, outcome) ==
  IF outcome.kind = "ok"
  THEN [kind |-> "ok", results |-> deduplicateResults(outcome.results, {})]
  ELSE IF primaryEngine # "fallback"
       THEN [kind |-> "ok", results |-> <<>>]   \* FallbackSearchEngine.search
       ELSE [kind |-> "throw", results |-> <<>>]

\* variant of consume that lets the call at the limit pass as well
consumeInclusive(limiter) ==
  [ok |-> limiter.consumed <= RateLimitPoints,
   limiter |-> [limiter EXCEPT !.consumed = @ + 1]]

\* RateLimiterMemory.consume(key): one point is consumed; the promise rejects
\* at once when the points of the window are used up
consume(limiter) ==
  [ok |-> limiter.consumed + 1 <= RateLimitPoints,
   limiter |-> [limiter EXCEPT !.consumed = @ + 1]]

\* GoogleSearchEngine.search; http is what the request does if it is issued
googleSearch(configured, limiter, http) ==
  IF ~configured
  THEN [kind |-> "throw", cause |-> "notConfigured", results |-> <<>>,
        requested |-> FALSE, limiter |-> limiter]
  ELSE IF ~consume(limiter).ok
  THEN [kind |-> "throw", cause |-> "rateLimited", results |-> <<>>,
        requested |-> FALSE, limiter |-> consume(limiter).limiter]
  ELSE [kind |-> http.kind, cause |-> IF http.kind = "ok" THEN "ok" ELSE "requestError",
        results |-> http.results, requested |-> TRUE,
        limiter |-> [consume(limiter).limiter EXCEPT !.requests = @ + 1]]

\* scores are counted in units of 1 / ScoreUnit
ScoreUnit == 600
NotANumber == [nan |-> TRUE, value |-> 0]
Number(v) == [nan |-> FALSE, value |-> v]

\* x / y * weight of JavaScript numbers, 0 / 0 being NaN
Ratio(x, y, weight) == IF y = 0 THEN NotANumber ELSE Number((x * weight) \div y)
\* a + b and Math.min(a, b) of JavaScript numbers: NaN if an operand is NaN
Plus(a, b) == IF a.nan \/ b.nan THEN NotANumber ELSE Number(a.value + b.value)
MathMin(a, b) == IF a.nan \/ b.nan THEN NotANumber ELSE Number(Min(a.value, b.value))

\* GoogleSearchEngine.calculateRelevanceScore, of an item given by what the
\* function reads of it: whether its link is a profile link, the query terms
\* longer than two characters, how many of them the title and the snippet
\* hold, the professional keywords found, and whether the location is found
calculateRelevanceScore(item) ==
  LET base == Number((ScoreUnit \div 2)
                     + (IF item.profileLink THEN (3 * ScoreUnit) \div 10 ELSE 0))
      title == Plus(base, Ratio(item.titleMatches, item.queryTerms,
                                (3 * ScoreUnit) \div 10))
      snippet == Plus(title, Ratio(item.snippetMatches, item.queryTerms,
                                   (2 * ScoreUnit) \div 10))
      keywords == Plus(snippet,
                       Number(Min(item.professionalMatches * (ScoreUnit \div 10),
                                  (2 * ScoreUnit) \div 10)))
      location == Plus(keywords,
                       Number(IF item.locationMatch THEN ScoreUnit \div 10 ELSE 0))
  IN MathMin(location, Number(ScoreUnit))

Undefined == [defined |-> FALSE, value |-> 0]
Defined(v) == [defined |-> TRUE, value |-> v]

\* Math.round(x / y) for x >= 0 and y > 0
MathRound(x, y) == (2 * x + y) \div (2 * y)

\* SearchOrchestrator.calculateEstimatedTime, elapsed being Date.now() - startTime
calculateEstimatedTime(record, elapsed) ==
  IF record.status = "completed" \/ record.status = "failed" THEN Defined(0)
  ELSE IF record.searchedLocations = 0 THEN Undefined
  ELSE Defined(MathRound(elapsed * (record.totalLocations - record.searchedLocations),
                         record.searchedLocations))

\* the indices kept by .filter(index => index >= 0 && index < length), in order
RECURSIVE FilterIndices(_, _)
FilterIndices(relevantIndices, length) ==
  IF relevantIndices = <<>> THEN <<>>
  ELSE (IF Head(relevantIndices) >= 0 /\ Head(relevantIndices) < length
        THEN <<Head(relevantIndices)>> ELSE <<>>)
       \o FilterIndices(Tail(relevantIndices), length)

AllIndices(length) == [k \in 1..length |-> k - 1]

\* AIProviderManager.parseResultFilterResponse: the indices of originalResults
\* returned as filteredResults, and removedCount.  content.json says whether a
\* {...} part is found and parses; content.relevantIndices is "missing" (absent,
\* null, or another falsy value), "other" (a value without the methods of a
\* list) or the list
parseResultFilterResponse(content, length) ==
  IF content.json = "none" \/ content.json = "invalid"
     \/ content.relevantIndices = "other"
  THEN [filteredResults |-> AllIndices(length), removedCount |-> 0]
  ELSE LET relevantIndices == IF content.relevantIndices = "missing" THEN <<>>
                              ELSE content.list
           filteredResults == FilterIndices(relevantIndices, length)
       IN [filteredResults |-> filteredResults,
           removedCount |-> length - Len(filteredResults)]

\* what the primary engine can do: the fallback engine always returns []
PrimaryOutcomes(primaryEngine) ==
  IF primaryEngine = "fallback" THEN {[kind |-> "ok", results |-> <<>>]}
  ELSE EngineOutcomes

\* ---------------------------------------------------------------- inputs
Configs ==
  {[enableQueryExpansion |-> FALSE, enableResultFiltering |-> FALSE,
    enableContactEnrichment |-> FALSE, maxLocations |-> 0,
    delayBetweenSearches |-> 0],
   [enableQueryExpansion |-> TRUE, enableResultFiltering |-> TRUE,
    enableContactEnrichment |-> TRUE, maxLocations |-> 0,
    delayBetweenSearches |-> 30000]}

\* every provider configured: an unconfigured engine is an engine call that
\* throws, an unavailable AI or Apollo provider acts as the disabled feature
FullEnvironment ==
  [primaryEngine |-> "google", aiAvailable |-> TRUE, apolloConfigured |-> TRUE]

NoOperation ==
  [kind |-> "none", status |-> "none", totalLocations |-> 0, searchedLocations |-> 0,
   totalResults |-> 0, progress |-> <<0, 1>>, currentLocation |-> 0,
   error |-> FALSE, ended |-> FALSE, config |-> CHOOSE c \in Configs : TRUE]

IdleWorker ==
  [pc |-> "idle", exc |-> FALSE, locations |-> <<>>, i |-> 0,
   consecutiveFailures |-> 0, queries |-> <<0>>, q |-> 0,
   locationResults |-> 0, finalResults |-> 0, rows |-> <<>>]

\* cancelledFrom: the status in which cancelSearch found the operation;
\* storeFault: a store write of the operation threw; escaped: an exception left
\* the per-location try blocks; providerThrew: the primary engine threw;
\* expected: results the gateway returned, summed for runs without filtering;
\* searchCalls, sleeps: gateway search calls and delays started; aiCalled: an
\* AI provider call was started; delay: the milliseconds of the latest delay;
\* expansion: how the expandQuery call ended; query: the query handed to the
\* latest gateway search call (0: the original query, k: the k-th variant);
\* kept: the results kept after filtering, summed over the locations whose try
\* block ran to its end
NoGhost ==
  [cancelledFrom |-> "none", escaped |-> FALSE, storeFault |-> FALSE,
   returned |-> "nothing", expected |-> 0, providerThrew |-> FALSE,
   searchCalls |-> 0, aiCalled |-> FALSE, sleeps |-> 0, delay |-> 0,
   expansion |-> "none", query |-> 0, kept |-> 0]

\* nothing has been called on the LocationManager directly: walk is the list of
\* ids getNextLocation returned since construction or reset(), inOrder says that
\* the list and the blacklist were left alone since; last is the latest
\* getNextLocation call; outcomes[l] counts the updateLocationSuccess calls and
\* the successes among them; current[l] says that the entry of the latest
\* blacklistLocation(l) call was not cleared; calls counts all calls; jobs is
\* the job queue of the event loop: the tasks suspended at an await of an
\* updateLocationSuccess call, in the order in which their continuations were
\* queued; overlapped says that a call was made while another was suspended
NoManagerCalls ==
  [walk |-> <<>>, inOrder |-> TRUE,
   last |-> [returned |-> 0, attempts |-> 0, blacklisted |-> {}, size |-> 0],
   outcomes |-> [l \in LocIds |-> <<0, 0>>],
   current |-> [l \in LocIds |-> FALSE], calls |-> 0,
   jobs |-> <<>>, overlapped |-> FALSE]

\* new RateLimiterMemory({points, duration}): nothing consumed in the window
NewRateLimiter == [consumed |-> 0, requests |-> 0]

NoCall == [fn |-> "none"]

\* the Apollo client as constructed: no point consumed, no request sent
NewApollo ==
  [consumed |-> [key \in {"apollo-search", "apollo-enrich"} |-> 0],
   requests |-> 0, last |-> [fn |-> "none", result |-> "none", cause |-> "none"]]

\* a call that has not been made: fn names the method called, read is the
\* number of rows getLocations(true) returned to it, k the default locations
\* it has inserted
NoCaller == [pc |-> "idle", fn |-> "none", read |-> 0, k |-> 0]

\* the store holds copies[d] active rows of default location d; had tells
\* whether it held active rows when the LocationManager was constructed; list
\* is the length of locationQueue.locations
SeedState(initialized, copies) ==
  [initialized |-> initialized, had |-> copies > 0,
   copies |-> [d \in 1..CatalogSize |-> copies], list |-> 0,
   callers |-> [c \in 1..MaxCallers |-> NoCaller]]

\* run() has awaited initialize(): one copy of each default location
Seeded == [SeedState(TRUE, 1) EXCEPT !.list = CatalogSize]

\* k active locations; the ones in failed have one failed search recorded
InitRows(k, failed) ==
  [l \in LocIds |-> [present |-> l <= k, priority |-> DefaultPriority(l),
                     succ |-> 0, total |-> IF l \in failed THEN 1 ELSE 0,
                     rate |-> <<0, 1>>]]

\* the catalogs a run starts with: 1..NumLocs locations none of which has been
\* searched, or a single location at which an earlier run has failed
Catalogs ==
  {[size |-> k, failed |-> {}] : k \in 1..NumLocs} \cup {[size |-> 1, failed |-> {1}]}

\* The server serves requests: run() has awaited locationManager.initialize(),
\* the store holds the active locations of the catalog.  A location at which
\* an earlier multi-location run failed has one failed search recorded, is
\* blacklisted, and its expiry timer is pending.
Init ==
  /\ uuidCount = 0
  /\ operation = [o \in Uuids |-> NoOperation]
  /\ activeOperations = {}
  /\ worker = [o \in Uuids |-> IdleWorker]
  /\ searchOperations = [r \in Uuids |-> NoRecord]
  /\ \E c \in Catalogs :
       /\ locationRows = InitRows(c.size, c.failed)
       /\ locationQueue =
            [locations |-> SortLocations(dbGetLocations(InitRows(c.size, c.failed))),
             currentIndex |-> 0, blacklistedLocations |-> c.failed]
       /\ blacklistTimers = [l \in LocIds |-> IF l \in c.failed THEN 1 ELSE 0]
  /\ cancels = [o \in Uuids |-> 0]
  /\ cancelCount = 0
  /\ lastCancel = [id |-> 0, result |-> "none"]
  /\ env = FullEnvironment
  /\ ghost = [o \in Uuids |-> NoGhost]
  /\ manager = NoManagerCalls
  /\ rateLimiter = NewRateLimiter
  /\ call = NoCall
  /\ seed = Seeded
  /\ apollo = NewApollo

\* ------------------------------------------------------ step building
\* the five variables every step of an operation's task writes
Set(o, w, op, g, act, rows) ==
  /\ worker' = [worker EXCEPT ![o] = w]
  /\ operation' = [operation EXCEPT ![o] = op]
  /\ ghost' = [ghost EXCEPT ![o] = g]
  /\ activeOperations' = act
  /\ searchOperations' = rows

\* a write to the store either happens or throws
Written(thr, id, updates) ==
  IF thr THEN searchOperations ELSE updateSearchOperation(searchOperations, id, updates)

Escaping(g, thr) == IF thr THEN [g EXCEPT !.escaped = TRUE, !.storeFault = TRUE] ELSE g
Contained(g, thr) == IF thr THEN [g EXCEPT !.storeFault = TRUE] ELSE g

\* the task of operation o ends; a searchProfiles call reports to its caller
Finish(o, w, op, g, act, how) ==
  Set(o, [IdleWorker EXCEPT !.pc = "done", !.locations = w.locations, !.i = w.i,
                            !.consecutiveFailures = w.consecutiveFailures], op,
      IF op.kind = "single" THEN [g EXCEPT !.returned = how] ELSE g,
      act, searchOperations)

\* variant of handleOperationError that does not look the operation up first
handleOperationErrorAlways(o, w, op, g) ==
  \E thr \in BOOLEAN :
    Set(o, [w EXCEPT !.pc = "failing", !.exc = thr],
        [op EXCEPT !.status = "failed", !.ended = TRUE, !.error = TRUE],
        IF thr THEN [g EXCEPT !.storeFault = TRUE] ELSE g,
        activeOperations,
        Written(thr, o, [status |-> "failed", ended |-> TRUE, error |-> TRUE]))

\* SearchOrchestrator.handleOperationError, up to its await
handleOperationError(o, w, op, g) ==
  IF o \in activeOperations
  THEN \E thr \in BOOLEAN :
         Set(o, [w EXCEPT !.pc = "failing", !.exc = thr],
             [op EXCEPT !.status = "failed", !.ended = TRUE, !.error = TRUE],
             IF thr THEN [g EXCEPT !.storeFault = TRUE] ELSE g,
             activeOperations,
             Written(thr, o, [status |-> "failed", ended |-> TRUE, error |-> TRUE]))
  ELSE Finish(o, w, op, g, activeOperations, "threw")

\* variant of CompleteGlobal that completes as searchProfiles does, counting one
\* searched location
CompleteGlobalAsSingle(o, w, op, g) ==
  \E thr \in BOOLEAN :
    Set(o, [w EXCEPT !.pc = "completing", !.exc = thr],
        [op EXCEPT !.status = "completed", !.ended = TRUE, !.progress = <<1, 1>>,
                   !.searchedLocations = 1],
        Escaping(g, thr), activeOperations,
        Written(thr, o, [status |-> "completed", ended |-> TRUE, progress |-> <<1, 1>>,
                         searchedLocations |-> 1]))

\* processGlobalSearch, "Complete operation", up to its await
CompleteGlobal(o, w, op, g) ==
  \E thr \in BOOLEAN :
    Set(o, [w EXCEPT !.pc = "completing", !.exc = thr],
        [op EXCEPT !.status = "completed", !.ended = TRUE, !.progress = <<1, 1>>],
        Escaping(g, thr), activeOperations,
        Written(thr, o, [status |-> "completed", ended |-> TRUE, progress |-> <<1, 1>>]))

\* the cancellation check at the top of the location loop
Cancelled(o) == o \notin activeOperations

\* variant of LoopTop whose progress counts the location being started
LoopTopCounted(o, w, op, g) ==
  IF w.i < Len(w.locations)
  THEN IF Cancelled(o)
       THEN Finish(o, w, op, g, activeOperations, "nothing")
       ELSE \E thr \in BOOLEAN :
              Set(o, [w EXCEPT !.pc = "locating", !.exc = thr],
                  [op EXCEPT !.currentLocation = w.locations[w.i + 1],
                             !.progress = <<w.i + 1, Len(w.locations)>>],
                  Escaping(g, thr), activeOperations,
                  Written(thr, o, [currentLocation |-> w.locations[w.i + 1],
                                   progress |-> <<w.i + 1, Len(w.locations)>>]))
  ELSE CompleteGlobal(o, w, op, g)

\* processGlobalSearch, top of the location loop for index w.i, up to its await
LoopTop(o, w, op, g) ==
  IF w.i < Len(w.locations)
  THEN IF Cancelled(o)
       THEN Finish(o, w, op, g, activeOperations, "nothing")
       ELSE \E thr \in BOOLEAN :
              Set(o, [w EXCEPT !.pc = "locating", !.exc = thr],
                  [op EXCEPT !.currentLocation = w.locations[w.i + 1],
                             !.progress = <<w.i, Len(w.locations)>>],
                  Escaping(g, thr), activeOperations,
                  Written(thr, o, [currentLocation |-> w.locations[w.i + 1],
                                   progress |-> <<w.i, Len(w.locations)>>]))
  ELSE CompleteGlobal(o, w, op, g)

\* config.delayBetweenSearches || 120000
sleepDelay(config) ==
  IF config.delayBetweenSearches # 0 THEN config.delayBetweenSearches ELSE DefaultDelay

\* variant of AfterLocation that waits after the last location as well
AfterLocationAlways(o, w, op, g) ==
  Set(o, [w EXCEPT !.pc = "sleeping"], op,
      [g EXCEPT !.sleeps = @ + 1, !.delay = sleepDelay(op.config)],
      activeOperations, searchOperations)

\* the delay between two locations, skipped after the last one
AfterLocation(o, w, op, g) ==
  IF w.i < Len(w.locations) - 1
  THEN Set(o, [w EXCEPT !.pc = "sleeping"], op,
           [g EXCEPT !.sleeps = @ + 1, !.delay = sleepDelay(op.config)],
           activeOperations, searchOperations)
  ELSE LoopTop(o, [w EXCEPT !.i = @ + 1], op, g)

AbortReached(consecutiveFailures) == consecutiveFailures >= maxConsecutiveFailures

\* variant of LocationCatch that hands the exception of a location to the
\* handler of the operation
LocationCatchEscalates(o, w, op, g) ==
  handleOperationError(o, w, op, g) /\ UNCHANGED locationRows

\* the catch block of the per-location try, up to the await in updateLocationSuccess
LocationCatch(o, w, op, g) ==
  \E thr \in BOOLEAN :
    /\ Set(o, [w EXCEPT !.pc = "failstat", !.exc = thr, !.rows = <<>>,
                        !.consecutiveFailures = @ + 1],
           op, Escaping(g, thr), activeOperations, searchOperations)
    /\ locationRows' = IF thr THEN locationRows
                       ELSE updateLocationStats(locationRows, w.locations[w.i + 1], FALSE)

\* searchEngineManager.search is called for the next query variant
StartSearch(o, w, op, g) ==
  Set(o, [w EXCEPT !.pc = "searching"], op,
      [g EXCEPT !.searchCalls = @ + 1, !.query = w.queries[w.q + 1]],
      activeOperations, searchOperations)

LocVars == <<locationRows, locationQueue, blacklistTimers>>
CancelVars == <<cancels, cancelCount, lastCancel>>
CompVars == <<manager, rateLimiter, call, seed, apollo>>

\* --------------------------------------------------------------- actions
Submitted == {o \in Uuids : worker[o].pc # "idle"}

MayStart == Cardinality(Submitted) < MaxOps

NewOperation(kind, cfg, total) ==
  [NoOperation EXCEPT !.kind = kind, !.status = "pending", !.config = cfg,
                      !.totalLocations = total]

\* searchProfiles(query, config), up to the await of insertSearchOperation
SearchProfiles(cfg) ==
  /\ MayStart
  /\ LET o == uuidCount + 1
         op == NewOperation("single", cfg, 1)
     IN \E thr \in BOOLEAN :
          /\ uuidCount' = uuidCount + 2
          /\ Set(o, [IdleWorker EXCEPT !.pc = "created", !.exc = thr], op,
                 IF thr THEN [NoGhost EXCEPT !.storeFault = TRUE] ELSE NoGhost,
                 activeOperations \cup {o},
                 IF thr THEN searchOperations
                 ELSE insertSearchOperation(searchOperations, o, uuidCount + 2, op))
  /\ UNCHANGED <<LocVars, CancelVars, env, CompVars>>

\* globalSearchProfiles(query, config), up to the await of getLocations
GlobalSearchProfiles(cfg) ==
  /\ MayStart
  /\ uuidCount' = uuidCount + 1
  /\ worker' = [worker EXCEPT ![uuidCount + 1] = [IdleWorker EXCEPT !.pc = "getLocations"]]
  /\ operation' = [operation EXCEPT ![uuidCount + 1] =
                     [NoOperation EXCEPT !.kind = "global", !.config = cfg]]
  /\ UNCHANGED <<activeOperations, searchOperations, ghost, LocVars, CancelVars, env, CompVars>>

\* locationManager.getLocations(config.maxLocations || 10) returns the work queue
GetLocations(o) ==
  /\ worker[o].pc = "getLocations"
  /\ LET m == operation[o].config.maxLocations
         snapshot == getLocations(locationQueue, IF m # 0 THEN m ELSE DefaultMaxLocations)
     IN worker' = [worker EXCEPT ![o].pc = "create",
                                 ![o].locations = [k \in 1..Len(snapshot) |-> snapshot[k].id]]
  /\ UNCHANGED <<uuidCount, operation, activeOperations, searchOperations, ghost,
                 LocVars, CancelVars, env, CompVars>>

\* globalSearchProfiles: the operation is created, tracked and inserted
CreateOperation(o) ==
  /\ worker[o].pc = "create"
  /\ LET op == NewOperation("global", operation[o].config, Len(worker[o].locations))
     IN \E thr \in BOOLEAN :
          /\ uuidCount' = uuidCount + 1
          /\ Set(o, [worker[o] EXCEPT !.pc = "created", !.exc = thr], op,
                 IF thr THEN [ghost[o] EXCEPT !.storeFault = TRUE] ELSE ghost[o],
                 activeOperations \cup {o},
                 IF thr THEN searchOperations
                 ELSE insertSearchOperation(searchOperations, o, uuidCount + 1, op))
  /\ UNCHANGED <<LocVars, CancelVars, env, CompVars>>

\* after the insert: searchProfiles enters its try block; globalSearchProfiles
\* calls processGlobalSearch, which runs to its first await, and returns the id
StartProcessing(o) ==
  /\ worker[o].pc = "created"
  /\ LET w == worker[o]
         op == operation[o]
         g == ghost[o]
     IN IF w.exc
        THEN Set(o, [w EXCEPT !.pc = "done", !.exc = FALSE], op,
                 [g EXCEPT !.returned = "threw"], activeOperations, searchOperations)
        ELSE IF op.kind = "global" /\ o \notin activeOperations
        THEN Set(o, [w EXCEPT !.pc = "done"], op, [g EXCEPT !.returned = "id"],
                 activeOperations, searchOperations)
        ELSE \E thr \in BOOLEAN :
               Set(o, [w EXCEPT !.pc = "running", !.exc = thr],
                   [op EXCEPT !.status = "running"],
                   Escaping(IF op.kind = "global" THEN [g EXCEPT !.returned = "id"] ELSE g, thr),
                   activeOperations, Written(thr, o, [status |-> "running"]))
  /\ UNCHANGED <<uuidCount, LocVars, CancelVars, env, CompVars>>

\* single path: the first query variant is searched; global path: the loop starts
AfterExpansion(o, w, op, g) ==
  IF op.kind = "single" THEN StartSearch(o, [w EXCEPT !.q = 0], op, g)
  ELSE LoopTop(o, [w EXCEPT !.i = 0, !.consecutiveFailures = 0], op, g)

\* "Expand query (once) if enabled", up to the await of expandQuery
ExpandQuery(o) ==
  /\ worker[o].pc = "running"
  /\ LET w == worker[o]
         op == operation[o]
         g == ghost[o]
     IN IF w.exc THEN handleOperationError(o, [w EXCEPT !.exc = FALSE], op, g)
        ELSE IF op.config.enableQueryExpansion /\ env.aiAvailable
        THEN Set(o, [w EXCEPT !.pc = "expanding"], op, [g EXCEPT !.aiCalled = TRUE],
                 activeOperations, searchOperations)
        ELSE AfterExpansion(o, [w EXCEPT !.queries = <<0>>], op, g)
  /\ UNCHANGED <<uuidCount, LocVars, CancelVars, env, CompVars>>

\* variant of withOriginal that puts the original query after the variants
withOriginalLast(expandedQueries) == expandedQueries \o <<0>>

\* [query, ...expansion.expandedQueries]
withOriginal(expandedQueries) == <<0>> \o expandedQueries

\* expandQuery returns n variants, or throws and the original query is used alone
Expanded(o) ==
  /\ worker[o].pc = "expanding"
  /\ \E thr \in BOOLEAN, n \in 0..MaxVariants :
       AfterExpansion(o, [worker[o] EXCEPT !.queries =
                            IF thr THEN <<0>> ELSE withOriginal([k \in 1..n |-> k])],
                      operation[o],
                      [ghost[o] EXCEPT !.expansion = IF thr THEN "threw" ELSE "returned"])
  /\ UNCHANGED <<uuidCount, LocVars, CancelVars, env, CompVars>>

\* the progress update of a location has returned: its first variant is searched
SearchLocation(o) ==
  /\ worker[o].pc = "locating"
  /\ LET w == worker[o]
     IN IF w.exc THEN handleOperationError(o, [w EXCEPT !.exc = FALSE], operation[o], ghost[o])
        ELSE StartSearch(o, [w EXCEPT !.q = 0, !.locationResults = 0, !.finalResults = 0],
                         operation[o], ghost[o])
  /\ UNCHANGED <<uuidCount, LocVars, CancelVars, env, CompVars>>

\* "Store results": every result is handed to storeSearchResult, each failure is caught
StoreResults(o, w, op, g) ==
  Set(o, [w EXCEPT !.pc = "storing"], op, g, activeOperations, searchOperations)

\* "Filter results if enabled", up to the await of filterResults
FilterOrStore(o, w, op, g) ==
  IF op.config.enableResultFiltering /\ w.locationResults > 0 /\ env.aiAvailable
  THEN Set(o, [w EXCEPT !.pc = "filtering"], op, [g EXCEPT !.aiCalled = TRUE],
           activeOperations, searchOperations)
  ELSE StoreResults(o, [w EXCEPT !.finalResults = w.locationResults], op, g)

\* one searchEngineManager.search call returns or throws; next variant or filtering
Searched(o) ==
  /\ worker[o].pc = "searching"
  /\ \E out \in PrimaryOutcomes(env.primaryEngine) :
       LET res == ManagerSearch(env.primaryEngine, out)
           w == [worker[o] EXCEPT !.q = @ + 1,
                                  !.locationResults = @ + Len(res.results)]
           g == [ghost[o] EXCEPT
                   !.expected = IF operation[o].config.enableResultFiltering THEN @
                                ELSE @ + Len(res.results),
                   !.providerThrew = @ \/ out.kind = "throw"]
       IN IF w.q < Len(w.queries) THEN StartSearch(o, w, operation[o], g)
          ELSE FilterOrStore(o, w, operation[o], g)
  /\ UNCHANGED <<uuidCount, LocVars, CancelVars, env, CompVars>>

\* the indices an AI provider may answer for a batch of n results: at most n
\* of them, each within 0..n (n itself is out of range)
FilterAnswers(n) == UNION {[1..k -> 0..n] : k \in 0..n}

\* parseResultFilterResponse: the number of results kept for the indices answered
KeptCount(relevantIndices, n) ==
  Cardinality({k \in 1..Len(relevantIndices) :
                 relevantIndices[k] >= 0 /\ relevantIndices[k] < n})

\* filterResults returns the results at the indices the provider kept, or
\* throws and all results are used
Filtered(o) ==
  /\ worker[o].pc = "filtering"
  /\ \E thr \in BOOLEAN, answer \in FilterAnswers(worker[o].locationResults) :
       StoreResults(o, [worker[o] EXCEPT !.finalResults =
                          IF thr THEN worker[o].locationResults
                          ELSE KeptCount(answer, worker[o].locationResults)],
                    operation[o], ghost[o])
  /\ UNCHANGED <<uuidCount, LocVars, CancelVars, env, CompVars>>

\* searchProfiles, "Complete operation", up to its await
CompleteSingle(o, w, op, g) ==
  \E thr \in BOOLEAN :
    Set(o, [w EXCEPT !.pc = "completing", !.exc = thr],
        [op EXCEPT !.status = "completed", !.ended = TRUE,
                   !.totalResults = w.finalResults, !.progress = <<1, 1>>,
                   !.searchedLocations = 1],
        Escaping(g, thr), activeOperations,
        Written(thr, o, [status |-> "completed", ended |-> TRUE,
                         totalResults |-> w.finalResults, progress |-> <<1, 1>>,
                         searchedLocations |-> 1]))

\* locationManager.updateLocationSuccess(location.id, finalResults.length > 0),
\* up to the await of updateLocationStats
UpdateLocationSuccess(o, w, op, g) ==
  \E thr \in BOOLEAN :
    /\ Set(o, [w EXCEPT !.pc = "stat", !.exc = thr], op, Contained(g, thr),
           activeOperations, searchOperations)
    /\ locationRows' = IF thr THEN locationRows
                       ELSE updateLocationStats(locationRows, w.locations[w.i + 1],
                                                w.finalResults > 0)

\* the results are stored; single path completes, global path enriches or reports
Stored(o) ==
  /\ worker[o].pc = "storing"
  /\ LET w == worker[o]
         op == operation[o]
         g == ghost[o]
     IN IF op.kind = "single"
        THEN CompleteSingle(o, w, op, g) /\ UNCHANGED locationRows
        ELSE IF op.config.enableContactEnrichment /\ env.apolloConfigured
        THEN /\ Set(o, [w EXCEPT !.pc = "enriching"], op, g,
                    activeOperations, searchOperations)
             /\ UNCHANGED locationRows
        ELSE UpdateLocationSuccess(o, w, op, g)
  /\ UNCHANGED <<uuidCount, locationQueue, blacklistTimers, CancelVars, env, CompVars>>

\* enrichLocationResults has returned: every enrichment failure was caught inside
Enriched(o) ==
  /\ worker[o].pc = "enriching"
  /\ UpdateLocationSuccess(o, worker[o], operation[o], ghost[o])
  /\ UNCHANGED <<uuidCount, locationQueue, blacklistTimers, CancelVars, env, CompVars>>

\* updateLocationSuccess: the stats are written, the locations are read back
ReloadLocations(o) ==
  /\ worker[o].pc \in {"stat", "failstat"}
  /\ LET w == worker[o]
         op == operation[o]
         g == ghost[o]
     IN IF w.exc
        THEN IF w.pc = "stat"
             THEN LocationCatch(o, [w EXCEPT !.exc = FALSE], op, g)
             ELSE handleOperationError(o, [w EXCEPT !.exc = FALSE], op, g)
                  /\ UNCHANGED locationRows
        ELSE /\ Set(o, [w EXCEPT !.pc = IF w.pc = "stat" THEN "reload" ELSE "failreload",
                                 !.rows = dbGetLocations(locationRows)],
                    op, g, activeOperations, searchOperations)
             /\ UNCHANGED locationRows
  /\ UNCHANGED <<uuidCount, locationQueue, blacklistTimers, CancelVars, env, CompVars>>

\* variant of CountLocation that assigns the result count instead of adding it
CountLocationAssigned(op, w) ==
  [op EXCEPT !.totalResults = w.finalResults, !.searchedLocations = w.i + 1]

\* variant of CountLocation that takes the loop index for a count starting at one
CountLocationOneBased(op, w) ==
  [op EXCEPT !.totalResults = @ + w.finalResults, !.searchedLocations = w.i + 2]

\* operation.totalResults += finalResults.length; searchedLocations = i + 1
CountLocation(op, w) ==
  [op EXCEPT !.totalResults = @ + w.finalResults, !.searchedLocations = w.i + 1]

\* updateLocationSuccess on the success path returns: the list read is installed
\* and sorted; the counts of the operation are raised and written
LocationDone(o) ==
  /\ worker[o].pc = "reload"
  /\ LET w == worker[o]
         counted == CountLocation(operation[o], worker[o])
     IN /\ locationQueue' = [locationQueue EXCEPT !.locations = SortLocations(w.rows)]
        /\ \E thr \in BOOLEAN :
             Set(o, [w EXCEPT !.pc = "counted", !.exc = thr, !.rows = <<>>], counted,
                 Contained(ghost[o], thr), activeOperations,
                 Written(thr, o, [totalResults |-> counted.totalResults,
                                  searchedLocations |-> counted.searchedLocations]))
  /\ UNCHANGED <<uuidCount, locationRows, blacklistTimers, CancelVars, env, CompVars>>

\* variant of LocationCounted that leaves the failure counter as it is
LocationCountedKeeps(o) ==
  /\ worker[o].pc = "counted"
  /\ LET w == worker[o]
     IN IF w.exc
        THEN LocationCatch(o, [w EXCEPT !.exc = FALSE], operation[o], ghost[o])
        ELSE AfterLocation(o, w, operation[o],
                           [ghost[o] EXCEPT !.kept = @ + w.finalResults])
             /\ UNCHANGED locationRows
  /\ UNCHANGED <<uuidCount, locationQueue, blacklistTimers, CancelVars, env, CompVars>>

\* the count update has returned: the failure counter is reset, or the catch block runs
LocationCounted(o) ==
  /\ worker[o].pc = "counted"
  /\ LET w == worker[o]
     IN IF w.exc
        THEN LocationCatch(o, [w EXCEPT !.exc = FALSE], operation[o], ghost[o])
        ELSE AfterLocation(o, [w EXCEPT !.consecutiveFailures = 0], operation[o],
                           [ghost[o] EXCEPT !.kept = @ + w.finalResults])
             /\ UNCHANGED locationRows
  /\ UNCHANGED <<uuidCount, locationQueue, blacklistTimers, CancelVars, env, CompVars>>

\* the catch block after updateLocationSuccess(id, false): the location is
\* blacklisted, and the run stops at the third consecutive failure
LocationFailed(o) ==
  /\ worker[o].pc = "failreload"
  /\ LET w == [worker[o] EXCEPT !.rows = <<>>]
         l == worker[o].locations[worker[o].i + 1]
     IN /\ locationQueue' = [locationQueue EXCEPT
                               !.locations = SortLocations(worker[o].rows),
                               !.blacklistedLocations = @ \cup {l}]
        /\ blacklistTimers' = [blacklistTimers EXCEPT ![l] = @ + 1]
        /\ IF AbortReached(w.consecutiveFailures)
           THEN CompleteGlobal(o, w, operation[o], ghost[o])
           ELSE AfterLocation(o, w, operation[o], ghost[o])
  /\ UNCHANGED <<uuidCount, locationRows, CancelVars, env, CompVars>>

\* the delay between two locations has elapsed
Awake(o) ==
  /\ worker[o].pc = "sleeping"
  /\ LoopTop(o, [worker[o] EXCEPT !.i = @ + 1], operation[o], ghost[o])
  /\ UNCHANGED <<uuidCount, LocVars, CancelVars, env, CompVars>>

\* the final update has returned: the operation leaves the active set
Completed(o) ==
  /\ worker[o].pc = "completing"
  /\ LET w == worker[o]
     IN IF w.exc
        THEN handleOperationError(o, [w EXCEPT !.exc = FALSE], operation[o], ghost[o])
        ELSE Finish(o, w, operation[o], ghost[o], activeOperations \ {o}, "result")
  /\ UNCHANGED <<uuidCount, LocVars, CancelVars, env, CompVars>>

\* handleOperationError after its await; a rejected update leaves the handler
Failed(o) ==
  /\ worker[o].pc = "failing"
  /\ LET w == worker[o]
     IN Finish(o, w, operation[o], ghost[o],
               IF w.exc THEN activeOperations ELSE activeOperations \ {o}, "threw")
  /\ UNCHANGED <<uuidCount, LocVars, CancelVars, env, CompVars>>

\* variant of CancelFound that looks the id up among all operations created
CancelFoundCreated(id) == operation[id].status # "none"

\* the lookup at the head of cancelSearch
CancelFound(id) == id \in activeOperations

\* cancelSearch(operationId), up to its await
CancelSearch(id) ==
  /\ cancelCount < MaxCancels
  /\ cancelCount' = cancelCount + 1
  /\ IF ~CancelFound(id)
     THEN /\ lastCancel' = [id |-> id, result |-> "false"]
          /\ UNCHANGED <<operation, activeOperations, searchOperations, ghost, cancels>>
     ELSE \E thr \in BOOLEAN :
            /\ operation' = [operation EXCEPT ![id].status = "cancelled",
                                              ![id].ended = TRUE]
            /\ searchOperations' = Written(thr, id, [status |-> "cancelled", ended |-> TRUE])
            /\ ghost' = [ghost EXCEPT ![id].cancelledFrom = operation[id].status,
                                      ![id].storeFault = @ \/ thr]
            /\ cancels' = IF thr THEN cancels ELSE [cancels EXCEPT ![id] = @ + 1]
            /\ lastCancel' = [id |-> id, result |-> IF thr THEN "threw" ELSE "pending"]
            /\ UNCHANGED activeOperations
  /\ UNCHANGED <<uuidCount, worker, LocVars, env, CompVars>>

\* cancelSearch after its await: the operation leaves the active set, true is returned
CancelReturn(id) ==
  /\ cancels[id] > 0
  /\ cancels' = [cancels EXCEPT ![id] = @ - 1]
  /\ activeOperations' = activeOperations \ {id}
  /\ lastCancel' = [id |-> id, result |-> "true"]
  /\ UNCHANGED <<uuidCount, operation, worker, searchOperations, ghost, cancelCount,
                 LocVars, env, CompVars>>

\* the timer set by blacklistLocation fires
BlacklistExpire(l) ==
  /\ blacklistTimers[l] > 0
  /\ blacklistTimers' = [blacklistTimers EXCEPT ![l] = @ - 1]
  /\ locationQueue' = [locationQueue EXCEPT !.blacklistedLocations = @ \ {l}]
  /\ UNCHANGED <<uuidCount, operation, activeOperations, worker, searchOperations,
                 locationRows, CancelVars, env, ghost, CompVars>>

\* ---------------------------------- the LocationManager called directly
OrchVars == <<uuidCount, operation, activeOperations, worker, searchOperations,
              CancelVars, env, ghost>>

MayCall == manager.calls < MaxManagerCalls

\* getNextLocation()
GetNextLocation ==
  /\ MayCall
  /\ LET r == getNextLocation(locationQueue)
     IN /\ locationQueue' = [locationQueue EXCEPT !.currentIndex = r.currentIndex]
        /\ manager' = [manager EXCEPT
                         !.calls = @ + 1,
                         !.walk = IF manager.inOrder /\ r.returned # 0
                                  THEN Append(@, r.returned) ELSE @,
                         !.last = [returned |-> r.returned, attempts |-> r.attempts,
                                   blacklisted |-> locationQueue.blacklistedLocations,
                                   size |-> Len(locationQueue.locations)]]
  /\ UNCHANGED <<OrchVars, locationRows, blacklistTimers, rateLimiter, call, seed, apollo>>

\* updateLocationSuccess(l, success), every store call of it returning
RecordOutcome(l, success) ==
  /\ MayCall
  /\ locationRows[l].present
  /\ locationRows' = updateLocationStats(locationRows, l, success)
  /\ locationQueue' = [locationQueue EXCEPT
                         !.locations = SortLocations(dbGetLocations(locationRows'))]
  /\ manager' = [manager EXCEPT
                   !.calls = @ + 1, !.inOrder = FALSE,
                   !.outcomes[l] = <<@[1] + 1, @[2] + (IF success THEN 1 ELSE 0)>>]
  /\ UNCHANGED <<OrchVars, blacklistTimers, rateLimiter, call, seed, apollo>>

\* blacklistLocation(l), with the default duration
BlacklistLocation(l) ==
  /\ MayCall
  /\ locationRows[l].present
  /\ locationQueue' = [locationQueue EXCEPT !.blacklistedLocations = @ \cup {l}]
  /\ blacklistTimers' = [blacklistTimers EXCEPT ![l] = @ + 1]
  /\ manager' = [manager EXCEPT !.calls = @ + 1, !.inOrder = FALSE, !.current[l] = TRUE]
  /\ UNCHANGED <<OrchVars, locationRows, rateLimiter, call, seed, apollo>>

\* clearBlacklist()
ClearBlacklist ==
  /\ MayCall
  /\ locationQueue' = [locationQueue EXCEPT !.blacklistedLocations = {}]
  /\ manager' = [manager EXCEPT !.calls = @ + 1, !.current = [l \in LocIds |-> FALSE]]
  /\ UNCHANGED <<OrchVars, locationRows, blacklistTimers, rateLimiter, call, seed, apollo>>

\* reset()
Reset ==
  /\ MayCall
  /\ locationQueue' = [locationQueue EXCEPT !.currentIndex = 0,
                                            !.blacklistedLocations = {}]
  /\ manager' = [manager EXCEPT !.calls = @ + 1, !.walk = <<>>, !.inOrder = TRUE,
                                !.current = [l \in LocIds |-> FALSE]]
  /\ UNCHANGED <<OrchVars, locationRows, blacklistTimers, rateLimiter, call, seed, apollo>>

\* the server has started and no operation is submitted
LocInit ==
  /\ uuidCount = 0
  /\ operation = [o \in Uuids |-> NoOperation]
  /\ activeOperations = {}
  /\ worker = [o \in Uuids |-> IdleWorker]
  /\ searchOperations = [r \in Uuids |-> NoRecord]
  /\ \E k \in 1..NumLocs :
       /\ locationRows = InitRows(k, {})
       /\ locationQueue = [locations |-> SortLocations(dbGetLocations(InitRows(k, {}))),
                           currentIndex |-> 0, blacklistedLocations |-> {}]
  /\ blacklistTimers = [l \in LocIds |-> 0]
  /\ cancels = [o \in Uuids |-> 0]
  /\ cancelCount = 0
  /\ lastCancel = [id |-> 0, result |-> "none"]
  /\ env = FullEnvironment
  /\ ghost = [o \in Uuids |-> NoGhost]
  /\ manager = NoManagerCalls
  /\ rateLimiter = NewRateLimiter
  /\ call = NoCall
  /\ seed = Seeded
  /\ apollo = NewApollo

LocNext ==
  \/ GetNextLocation
  \/ \E l \in LocIds, success \in BOOLEAN : RecordOutcome(l, success)
  \/ \E l \in LocIds : BlacklistLocation(l)
  \/ \E l \in LocIds : BlacklistExpire(l)
  \/ ClearBlacklist
  \/ Reset

LocSpec == LocInit /\ [][LocNext]_vars

\* ------------------------------------------- functions called directly
\* searchEngineManager.search(query, engineName): the engine named, or the
\* primary engine, is asked; the limiter admits one rejected call per window here
SearchCall(engineName, http) ==
  /\ rateLimiter.consumed <= RateLimitPoints
  /\ LET name == IF engineName = "" THEN env.primaryEngine ELSE engineName
         engine == IF name = "google"
                   THEN googleSearch(env.primaryEngine = "google", rateLimiter, http)
                   ELSE [kind |-> "ok", cause |-> "notConfigured", results |-> <<>>,
                         requested |-> FALSE, limiter |-> rateLimiter]
         out == ManagerSearch(name, engine)
     IN /\ rateLimiter' = engine.limiter
        /\ call' = [fn |-> "search", cause |-> engine.cause, kind |-> out.kind,
                    results |-> out.results, requested |-> engine.requested,
                    consumedBefore |-> rateLimiter.consumed]
  /\ UNCHANGED <<OrchVars, LocVars, manager, seed, apollo>>

\* the window of the rate limiter ends: its points are available again
WindowExpires ==
  /\ rateLimiter.consumed > 0
  /\ rateLimiter' = NewRateLimiter
  /\ UNCHANGED <<OrchVars, LocVars, manager, call, seed, apollo>>

\* getSearchProgress(operationId) finds the record and estimates the time left
StoredRecords ==
  {r \in [status : {"pending", "running", "completed", "failed", "cancelled"},
          totalLocations : 0..NumLocs, searchedLocations : 0..NumLocs] :
     r.searchedLocations <= r.totalLocations}

GetSearchProgress(record, elapsed) ==
  /\ call' = [fn |-> "getSearchProgress", record |-> record, elapsed |-> elapsed,
              estimatedTimeRemaining |-> calculateEstimatedTime(record, elapsed)]
  /\ UNCHANGED <<OrchVars, LocVars, manager, rateLimiter, seed, apollo>>

Batches == UNION {[1..n -> Urls] : n \in 0..MaxBatch}

\* deduplicateResults(results), and again on what it returned
Deduplicate(results) ==
  /\ call' = [fn |-> "deduplicateResults", results |-> results,
              unique |-> deduplicateResults(results, {}),
              again |-> deduplicateResults(deduplicateResults(results, {}), {})]
  /\ UNCHANGED <<OrchVars, LocVars, manager, rateLimiter, seed, apollo>>

Items ==
  {i \in [profileLink : BOOLEAN, queryTerms : 0..MaxTerms, titleMatches : 0..MaxTerms,
          snippetMatches : 0..MaxTerms, professionalMatches : 0..MaxKeywords,
          locationMatch : BOOLEAN] :
     i.titleMatches <= i.queryTerms /\ i.snippetMatches <= i.queryTerms}

\* parseSearchResults scores one item of the response
ScoreItem(item) ==
  /\ call' = [fn |-> "calculateRelevanceScore", item |-> item,
              relevanceScore |-> calculateRelevanceScore(item)]
  /\ UNCHANGED <<OrchVars, LocVars, manager, rateLimiter, seed, apollo>>

\* the responses of an AI provider to a filter request for length results
Contents(length) ==
  {[json |-> j, relevantIndices |-> "missing", list |-> <<>>] :
     j \in {"none", "invalid", "object"}}
  \cup {[json |-> "object", relevantIndices |-> "other", list |-> <<>>]}
  \cup {[json |-> "object", relevantIndices |-> "list", list |-> l] :
          l \in UNION {[1..k -> (0 - 1)..length] : k \in 0..MaxIndices}}

\* filterResults: the provider has answered, the answer is parsed
ParseFilterResponse(length, content) ==
  /\ call' = [fn |-> "parseResultFilterResponse", length |-> length,
              content |-> content,
              response |-> parseResultFilterResponse(content, length)]
  /\ UNCHANGED <<OrchVars, LocVars, manager, rateLimiter, seed, apollo>>

\* ------------------------------------------------------- the Apollo client
\* RateLimiterMemory.consume(key) of the Apollo client: the points are counted
\* per key
apolloConsume(a, key) ==
  [ok |-> a.consumed[key] + 1 <= ApolloPoints,
   apollo |-> [a EXCEPT !.consumed[key] = @ + 1]]

\* searchPeople(params); http is what the request does if it is sent:
\* "found" (contacts, one of them matching), "empty" (no matching contact),
\* "notFound" (status 404), "error" (any other failure)
searchPeople(a, http) ==
  LET c == apolloConsume(a, "apollo-search")
  IN IF ~c.ok
     THEN [result |-> "throw", cause |-> "rateLimited", apollo |-> c.apollo]
     ELSE [result |-> IF http \in {"found", "empty"} THEN http ELSE "throw",
           cause |-> IF http \in {"found", "empty"} THEN "answered" ELSE "requestError",
           apollo |-> [c.apollo EXCEPT !.requests = @ + 1]]

\* getPersonByEmail(email): status 404 is an answer, not an error
getPersonByEmail(a, http) ==
  LET c == apolloConsume(a, "apollo-enrich")
  IN IF ~c.ok
     THEN [result |-> "throw", cause |-> "rateLimited", apollo |-> c.apollo]
     ELSE [result |-> CASE http = "found" -> "found"
                        [] http \in {"empty", "notFound"} -> "null"
                        [] OTHER -> "throw",
           cause |-> IF http = "error" THEN "requestError" ELSE "answered",
           apollo |-> [c.apollo EXCEPT !.requests = @ + 1]]

\* enrichContact(name, company, email, linkedinUrl): the lookup by email, if
\* an email is given, then the search by name and company
enrichContact(a, email, httpEmail, httpSearch) ==
  LET direct == getPersonByEmail(a, httpEmail)
      b == IF email THEN direct.apollo ELSE a
      search == searchPeople(b, httpSearch)
  IN IF email /\ direct.result = "found"
     THEN direct
     ELSE [result |-> IF search.result = "found" THEN "found" ELSE "null",
           cause |-> search.cause, apollo |-> search.apollo]

\* one call of the Apollo client by a tool handler or by the orchestrator
ApolloCall(fn, email, httpEmail, httpSearch) ==
  /\ apollo.consumed["apollo-search"] <= ApolloPoints
  /\ apollo.consumed["apollo-enrich"] <= ApolloPoints
  /\ LET out == CASE fn = "searchPeople" -> searchPeople(apollo, httpSearch)
                  [] fn = "getPersonByEmail" -> getPersonByEmail(apollo, httpEmail)
                  [] OTHER -> enrichContact(apollo, email, httpEmail, httpSearch)
     IN apollo' = [out.apollo EXCEPT !.last = [fn |-> fn, result |-> out.result,
                                               cause |-> out.cause]]
  /\ UNCHANGED <<OrchVars, LocVars, manager, rateLimiter, call, seed>>

ApolloNext ==
  \/ \E http \in {"found", "empty", "notFound", "error"} :
       ApolloCall("searchPeople", FALSE, "empty", http)
  \/ \E http \in {"found", "empty", "notFound", "error"} :
       ApolloCall("getPersonByEmail", TRUE, http, "empty")
  \/ \E email \in BOOLEAN :
       \E httpEmail, httpSearch \in {"found", "empty", "notFound", "error"} :
         ApolloCall("enrichContact", email, httpEmail, httpSearch)

\* ------------------------------------------ the results of one location
\* storeSearchResult for each of finalResults: a profile with profileUrl =
\* result.url is inserted for every result from whose title a name is
\* extracted; named holds the persons (url.base) whose results have such a title
storeSearchResults(finalResults, named) ==
  SelectSeq(finalResults, LAMBDA result : result.base \in named)

\* one location of a run with two query variants and filtering disabled: each
\* search call returns its results deduplicated, the results of the calls are
\* pushed onto locationResults and stored.  The location is processed once.
StoreLocationResults(first, second, named) ==
  /\ call = NoCall
  /\ LET locationResults == deduplicateResults(first, {}) \o deduplicateResults(second, {})
     IN call' = [fn |-> "storeLocationResults", first |-> first, second |-> second,
                 locationResults |-> locationResults,
                 profiles |-> storeSearchResults(locationResults, named)]
  /\ UNCHANGED <<OrchVars, LocVars, manager, rateLimiter, seed, apollo>>

StoreNext ==
  \E first, second \in UNION {[1..n -> Urls] : n \in 0..MaxPerVariant} :
    \E named \in SUBSET {1, 2} : StoreLocationResults(first, second, named)

\* the server has started with Google Search configured or not
CallInit ==
  /\ uuidCount = 0
  /\ operation = [o \in Uuids |-> NoOperation]
  /\ activeOperations = {}
  /\ worker = [o \in Uuids |-> IdleWorker]
  /\ searchOperations = [r \in Uuids |-> NoRecord]
  /\ locationRows = InitRows(NumLocs, {})
  /\ locationQueue = [locations |-> SortLocations(dbGetLocations(InitRows(NumLocs, {}))),
                      currentIndex |-> 0, blacklistedLocations |-> {}]
  /\ blacklistTimers = [l \in LocIds |-> 0]
  /\ cancels = [o \in Uuids |-> 0]
  /\ cancelCount = 0
  /\ lastCancel = [id |-> 0, result |-> "none"]
  /\ env \in {[FullEnvironment EXCEPT !.primaryEngine = e] : e \in {"google", "fallback"}}
  /\ ghost = [o \in Uuids |-> NoGhost]
  /\ manager = NoManagerCalls
  /\ rateLimiter = NewRateLimiter
  /\ call = NoCall
  /\ seed = Seeded
  /\ apollo = NewApollo

CallNext ==
  \/ \E engineName \in {"", "google"}, http \in EngineOutcomes : SearchCall(engineName, http)
  \/ WindowExpires
  \/ \E record \in StoredRecords, elapsed \in 0..MaxElapsed :
       GetSearchProgress(record, elapsed)
  \/ \E results \in Batches : Deduplicate(results)
  \/ \E item \in Items : ScoreItem(item)
  \/ \E length \in 0..MaxBatch : \E content \in Contents(length) :
       ParseFilterResponse(length, content)

CallSpec == CallInit /\ [][CallNext]_vars

ApolloSpec == CallInit /\ [][ApolloNext]_vars

StoreSpec == CallInit /\ [][StoreNext]_vars

Next ==
  \/ \E cfg \in Configs : SearchProfiles(cfg)
  \/ \E cfg \in Configs : GlobalSearchProfiles(cfg)
  \/ \E o \in Uuids : GetLocations(o)
  \/ \E o \in Uuids : CreateOperation(o)
  \/ \E o \in Uuids : StartProcessing(o)
  \/ \E o \in Uuids : ExpandQuery(o)
  \/ \E o \in Uuids : Expanded(o)
  \/ \E o \in Uuids : SearchLocation(o)
  \/ \E o \in Uuids : Searched(o)
  \/ \E o \in Uuids : Filtered(o)
  \/ \E o \in Uuids : Stored(o)
  \/ \E o \in Uuids : Enriched(o)
  \/ \E o \in Uuids : ReloadLocations(o)
  \/ \E o \in Uuids : LocationDone(o)
  \/ \E o \in Uuids : LocationCounted(o)
  \/ \E o \in Uuids : LocationFailed(o)
  \/ \E o \in Uuids : Awake(o)
  \/ \E o \in Uuids : Completed(o)
  \/ \E o \in Uuids : Failed(o)
  \/ \E id \in 1..Min(uuidCount + 1, 2 * MaxOps) : CancelSearch(id)
  \/ \E id \in Uuids : CancelReturn(id)
  \/ \E l \in LocIds : BlacklistExpire(l)

Spec == Init /\ [][Next]_vars

\* ------------------------------- first use of a LocationManager constructed
RECURSIVE Sum(_, _)
Sum(f, n) == IF n = 0 THEN 0 ELSE f[n] + Sum(f, n - 1)

\* SELECT * FROM locations WHERE is_active = 1: the number of rows
ActiveRows == Sum(seed.copies, CatalogSize)

SeedVars == <<uuidCount, operation, activeOperations, worker, searchOperations,
              CancelVars, env, ghost, LocVars, manager, rateLimiter, call, apollo>>

\* initialize(), getNextLocation() or getLocations() is called: initialize()
\* returns at once when initialized, or reads the active locations and waits
InitializeCall(c, fn) ==
  /\ seed.callers[c].pc = "idle"
  /\ seed' = [seed EXCEPT
                !.callers[c] =
                  IF seed.initialized THEN [NoCaller EXCEPT !.pc = "returned", !.fn = fn]
                  ELSE [NoCaller EXCEPT !.pc = "read", !.fn = fn, !.read = ActiveRows]]
  /\ UNCHANGED SeedVars

\* initialize() resumes with the rows read: none, and initializeDefaultLocations
\* inserts the first default location and waits; some, and they are installed
InitializeRead(c) ==
  /\ seed.callers[c].pc = "read"
  /\ seed' = IF seed.callers[c].read = 0
             THEN [seed EXCEPT !.callers[c].pc = "seeding",
                               !.callers[c].k = 1,
                               !.copies[1] = @ + 1]
             ELSE [seed EXCEPT !.callers[c].pc = "returned",
                               !.list = seed.callers[c].read, !.initialized = TRUE]
  /\ UNCHANGED SeedVars

\* insertLocation has returned: the next default location is inserted, or all
\* are and the active locations are read again
InsertLocationReturned(c) ==
  /\ seed.callers[c].pc = "seeding"
  /\ seed' = IF seed.callers[c].k < CatalogSize
             THEN [seed EXCEPT !.callers[c].k = @ + 1,
                               !.copies[seed.callers[c].k + 1] = @ + 1]
             ELSE [seed EXCEPT !.callers[c].pc = "reread",
                               !.callers[c].read = ActiveRows]
  /\ UNCHANGED SeedVars

\* initialize() resumes after seeding: the rows read are installed and sorted
InitializeSeeded(c) ==
  /\ seed.callers[c].pc = "reread"
  /\ seed' = [seed EXCEPT !.callers[c].pc = "returned",
                          !.list = seed.callers[c].read, !.initialized = TRUE]
  /\ UNCHANGED SeedVars

\* new LocationManager(), over a store with no active location or with the
\* default locations of an earlier run
SeedInit ==
  /\ uuidCount = 0
  /\ operation = [o \in Uuids |-> NoOperation]
  /\ activeOperations = {}
  /\ worker = [o \in Uuids |-> IdleWorker]
  /\ searchOperations = [r \in Uuids |-> NoRecord]
  /\ locationRows = InitRows(0, {})
  /\ locationQueue = [locations |-> <<>>, currentIndex |-> 0, blacklistedLocations |-> {}]
  /\ blacklistTimers = [l \in LocIds |-> 0]
  /\ cancels = [o \in Uuids |-> 0]
  /\ cancelCount = 0
  /\ lastCancel = [id |-> 0, result |-> "none"]
  /\ env = FullEnvironment
  /\ ghost = [o \in Uuids |-> NoGhost]
  /\ manager = NoManagerCalls
  /\ rateLimiter = NewRateLimiter
  /\ call = NoCall
  /\ seed \in {SeedState(FALSE, n) : n \in {0, 1}}
  /\ apollo = NewApollo

SeedNext ==
  \/ \E c \in 1..MaxCallers, fn \in {"initialize", "getNextLocation", "getLocations"} :
       InitializeCall(c, fn)
  \/ \E c \in 1..MaxCallers : InitializeRead(c)
  \/ \E c \in 1..MaxCallers : InsertLocationReturned(c)
  \/ \E c \in 1..MaxCallers : InitializeSeeded(c)

SeedSpec == SeedInit /\ [][SeedNext]_vars

\* --------------- updateLocationSuccess called by tasks that run concurrently
\* variant of UpdateLocationSuccessCall that computes the new counts from the
\* entry of the list in memory and writes them
UpdateLocationSuccessCached(o, l, success) ==
  /\ MayCall
  /\ worker[o].pc = "idle"
  /\ \E k \in 1..Len(locationQueue.locations) :
       /\ locationQueue.locations[k].id = l
       /\ locationRows' =
            [locationRows EXCEPT
               ![l].total = locationQueue.locations[k].total + 1,
               ![l].succ = locationQueue.locations[k].succ + (IF success THEN 1 ELSE 0),
               ![l].rate = <<locationQueue.locations[k].succ + (IF success THEN 1 ELSE 0),
                             locationQueue.locations[k].total + 1>>]
  /\ worker' = [worker EXCEPT ![o] = [IdleWorker EXCEPT !.pc = "stat", !.locations = <<l>>]]
  /\ manager' = [manager EXCEPT
                   !.calls = @ + 1, !.inOrder = FALSE,
                   !.outcomes[l] = <<@[1] + 1, @[2] + (IF success THEN 1 ELSE 0)>>,
                   !.jobs = Append(@, o),
                   !.overlapped = @ \/ manager.jobs # <<>>]
  /\ UNCHANGED <<uuidCount, operation, activeOperations, searchOperations, CancelVars,
                 env, ghost, locationQueue, blacklistTimers, rateLimiter, call, seed, apollo>>

\* the task of operation o calls updateLocationSuccess(l, success): the UPDATE
\* statement of updateLocationStats runs (better-sqlite3 runs a statement when
\* it is called), the promise returned is settled, and the continuation of the
\* await is queued behind the continuations queued before it
UpdateLocationSuccessCall(o, l, success) ==
  /\ MayCall
  /\ worker[o].pc = "idle"
  /\ locationRows[l].present
  /\ locationRows' = updateLocationStats(locationRows, l, success)
  /\ worker' = [worker EXCEPT ![o] = [IdleWorker EXCEPT !.pc = "stat", !.locations = <<l>>]]
  /\ manager' = [manager EXCEPT
                   !.calls = @ + 1, !.inOrder = FALSE,
                   !.outcomes[l] = <<@[1] + 1, @[2] + (IF success THEN 1 ELSE 0)>>,
                   !.jobs = Append(@, o),
                   !.overlapped = @ \/ manager.jobs # <<>>]
  /\ UNCHANGED <<uuidCount, operation, activeOperations, searchOperations, CancelVars,
                 env, ghost, locationQueue, blacklistTimers, rateLimiter, call, seed, apollo>>

\* variant of UpdateLocationSuccessReload that keeps the list in memory
\* instead of reading the rows
UpdateLocationSuccessReloadSkipped(o) ==
  /\ worker[o].pc = "stat"
  /\ manager.jobs # <<>> /\ Head(manager.jobs) = o
  /\ manager' = [manager EXCEPT !.jobs = Append(Tail(@), o)]
  /\ worker' = [worker EXCEPT ![o].pc = "reload",
                              ![o].rows = locationQueue.locations]
  /\ UNCHANGED <<uuidCount, operation, activeOperations, searchOperations, CancelVars,
                 env, ghost, LocVars, rateLimiter, call, seed, apollo>>

\* updateLocationSuccess resumes, its continuation being the first of the job
\* queue: getLocations(true) reads the rows, the continuation of the second
\* await is queued
UpdateLocationSuccessReload(o) ==
  /\ worker[o].pc = "stat"
  /\ manager.jobs # <<>> /\ Head(manager.jobs) = o
  /\ manager' = [manager EXCEPT !.jobs = Append(Tail(@), o)]
  /\ worker' = [worker EXCEPT ![o].pc = "reload",
                              ![o].rows = dbGetLocations(locationRows)]
  /\ UNCHANGED <<uuidCount, operation, activeOperations, searchOperations, CancelVars,
                 env, ghost, LocVars, rateLimiter, call, seed, apollo>>

\* updateLocationSuccess resumes, its continuation being the first of the job
\* queue: the list read is installed and sorted, the call returns
UpdateLocationSuccessReturn(o) ==
  /\ worker[o].pc = "reload"
  /\ manager.jobs # <<>> /\ Head(manager.jobs) = o
  /\ manager' = [manager EXCEPT !.jobs = Tail(@)]
  /\ locationQueue' = [locationQueue EXCEPT !.locations = SortLocations(worker[o].rows)]
  /\ worker' = [worker EXCEPT ![o] = IdleWorker]
  /\ UNCHANGED <<uuidCount, operation, activeOperations, searchOperations, CancelVars,
                 env, ghost, locationRows, blacklistTimers, rateLimiter, call, seed, apollo>>

RaceNext ==
  \/ \E o \in Uuids, l \in LocIds, success \in BOOLEAN :
       UpdateLocationSuccessCall(o, l, success)
  \/ \E o \in Uuids : UpdateLocationSuccessReload(o)
  \/ \E o \in Uuids : UpdateLocationSuccessReturn(o)

RaceSpec == LocInit /\ [][RaceNext]_vars

\* ------------------- a multi-location run beside another operation's calls
\* configurations of a run with expansion, filtering and enrichment off:
\* maxLocations not given, or 2
SnapConfigs ==
  {[enableQueryExpansion |-> FALSE, enableResultFiltering |-> FALSE,
    enableContactEnrichment |-> FALSE, maxLocations |-> m,
    delayBetweenSearches |-> 0] : m \in {0, 2}}

\* the run of one multi-location operation; meanwhile another running operation
\* reports outcomes to the LocationManager and blacklists locations
SnapNext ==
  \/ \E cfg \in SnapConfigs : GlobalSearchProfiles(cfg)
  \/ \E o \in Uuids : GetLocations(o)
  \/ \E o \in Uuids : CreateOperation(o)
  \/ \E o \in Uuids : StartProcessing(o)
  \/ \E o \in Uuids : ExpandQuery(o)
  \/ \E o \in Uuids : SearchLocation(o)
  \/ \E o \in Uuids : Searched(o)
  \/ \E o \in Uuids : Stored(o)
  \/ \E o \in Uuids : ReloadLocations(o)
  \/ \E o \in Uuids : LocationDone(o)
  \/ \E o \in Uuids : LocationCounted(o)
  \/ \E o \in Uuids : LocationFailed(o)
  \/ \E o \in Uuids : Awake(o)
  \/ \E o \in Uuids : Completed(o)
  \/ \E o \in Uuids : Failed(o)
  \/ \E l \in LocIds : BlacklistExpire(l)
  \/ \E l \in LocIds, success \in BOOLEAN :
       manager.calls < MaxOtherCalls /\ RecordOutcome(l, success)
  \/ \E l \in LocIds : manager.calls < MaxOtherCalls /\ BlacklistLocation(l)

SnapSpec == Init /\ [][SnapNext]_vars

\* the continuations of the task of operation o: the event loop runs each one
\* once the promise it awaits is settled
TaskStep(o) ==
  \/ GetLocations(o) \/ CreateOperation(o) \/ StartProcessing(o)
  \/ ExpandQuery(o) \/ Expanded(o) \/ SearchLocation(o) \/ Searched(o)
  \/ Filtered(o) \/ Stored(o) \/ Enriched(o) \/ ReloadLocations(o)
  \/ LocationDone(o) \/ LocationCounted(o) \/ LocationFailed(o)
  \/ Awake(o) \/ Completed(o) \/ Failed(o)

\* ------------------- operations with and without an AI provider configured
\* the server has started, with an AI provider available or with none
ExpansionInit ==
  /\ uuidCount = 0
  /\ operation = [o \in Uuids |-> NoOperation]
  /\ activeOperations = {}
  /\ worker = [o \in Uuids |-> IdleWorker]
  /\ searchOperations = [r \in Uuids |-> NoRecord]
  /\ \E k \in 1..NumLocs :
       /\ locationRows = InitRows(k, {})
       /\ locationQueue = [locations |-> SortLocations(dbGetLocations(InitRows(k, {}))),
                           currentIndex |-> 0, blacklistedLocations |-> {}]
  /\ blacklistTimers = [l \in LocIds |-> 0]
  /\ cancels = [o \in Uuids |-> 0]
  /\ cancelCount = 0
  /\ lastCancel = [id |-> 0, result |-> "none"]
  /\ env \in {[FullEnvironment EXCEPT !.aiAvailable = a] : a \in BOOLEAN}
  /\ ghost = [o \in Uuids |-> NoGhost]
  /\ manager = NoManagerCalls
  /\ rateLimiter = NewRateLimiter
  /\ call = NoCall
  /\ seed = Seeded
  /\ apollo = NewApollo

\* operations are submitted and run to their end; none is cancelled
ExpansionNext ==
  \/ \E cfg \in Configs : SearchProfiles(cfg)
  \/ \E cfg \in Configs : GlobalSearchProfiles(cfg)
  \/ \E o \in Uuids : TaskStep(o)
  \/ \E l \in LocIds : BlacklistExpire(l)

ExpansionSpec == ExpansionInit /\ [][ExpansionNext]_vars

\* ------------------------------------------ the process stops and starts again
\* The process is killed and started again: the in-memory state of the
\* orchestrator and of the LocationManager is constructed anew, the pending
\* continuations and timers are gone, the store is as it was.  run() validates
\* the configuration, awaits locationManager.initialize() and connects the
\* transport; it reads no operation record.
Restart ==
  /\ Submitted # {}
  /\ operation' = [o \in Uuids |-> NoOperation]
  /\ activeOperations' = {}
  /\ worker' = [o \in Uuids |-> IdleWorker]
  /\ locationQueue' = [locations |-> SortLocations(dbGetLocations(locationRows)),
                       currentIndex |-> 0, blacklistedLocations |-> {}]
  /\ blacklistTimers' = [l \in LocIds |-> 0]
  /\ cancels' = [o \in Uuids |-> 0]
  /\ UNCHANGED <<uuidCount, searchOperations, locationRows, cancelCount, lastCancel,
                 env, ghost, CompVars>>

\* one operation is submitted and runs; the process may be restarted at any time
RestartNext ==
  \/ \E cfg \in Configs : uuidCount = 0 /\ SearchProfiles(cfg)
  \/ \E cfg \in Configs : uuidCount = 0 /\ GlobalSearchProfiles(cfg)
  \/ \E o \in Uuids : TaskStep(o)
  \/ \E l \in LocIds : BlacklistExpire(l)
  \/ Restart

RestartSpec == Init /\ [][RestartNext]_vars

\* every store call, provider call and delay returns, and every timer fires
FairSpec ==
  /\ Spec
  /\ \A o \in Uuids : WF_vars(TaskStep(o)) /\ WF_vars(CancelReturn(o))
  /\ \A l \in LocIds : WF_vars(BlacklistExpire(l))

\* ------------------------------------------------------------ properties
Created == {o \in Uuids : operation[o].status # "none"}
Done(o) == worker[o].pc = "done"
AllDisabled(o) ==
  /\ ~operation[o].config.enableQueryExpansion
  /\ ~operation[o].config.enableResultFiltering
  /\ ~operation[o].config.enableContactEnrichment
\* no cancellation reached the operation and none of its store writes threw
Undisturbed(o) == ghost[o].cancelledFrom = "none" /\ ~ghost[o].storeFault

\* C1: the id a submission returns is the key of the operation's stored record:
\* get(returnedId) finds the record, never none.
C1_ReturnedIdIsKey ==
  \A o \in Uuids :
    ghost[o].returned \in {"id", "result"}
      => getSearchOperation(searchOperations, o) # NoRecord

\* C2: once the status of an operation is completed, failed or cancelled, no
\* later step changes it, in memory or in the store.
C2_TerminalImmutable ==
  [][\A o \in Uuids :
       /\ operation[o].status \in Terminal
            => operation'[o].status = operation[o].status
       /\ searchOperations[o].status \in Terminal
            => searchOperations'[o].status = searchOperations[o].status]_vars

StatusSteps ==
  {<<"none", "pending">>, <<"pending", "running">>, <<"running", "completed">>,
   <<"running", "failed">>, <<"running", "cancelled">>}

\* C3: the status of an operation only moves none -> pending -> running ->
\* {completed, failed, cancelled}: running comes before any terminal status,
\* nothing moves backwards and there is one terminal transition.
C3_StatusOrder ==
  [][\A o \in Uuids :
       operation'[o].status # operation[o].status
         => <<operation[o].status, operation'[o].status>> \in StatusSteps]_vars

\* C4: when an operation's task has ended and every status update of it has
\* returned without throwing, the stored record of the operation carries the
\* status of the in-memory operation.
C4_StatusPersisted ==
  \A o \in Uuids :
    (Done(o) /\ operation[o].status # "none" /\ ~ghost[o].storeFault /\ cancels[o] = 0)
      => getSearchOperation(searchOperations, o).status = operation[o].status

\* C5: a multi-location operation that was running when cancelSearch returned
\* true for it is out of the active set and ends with status cancelled.
C5_CancelledStaysCancelled ==
  \A o \in Uuids :
    (/\ operation[o].kind = "global"
     /\ ghost[o].cancelledFrom = "running"
     /\ cancels[o] = 0 /\ ~ghost[o].storeFault
     /\ Done(o))
      => operation[o].status = "cancelled" /\ o \notin activeOperations

C7_AbortCompletes ==
  \A o \in Uuids :
    AbortReached(worker[o].consecutiveFailures)
      => /\ worker[o].pc \in {"failstat", "failreload", "completing", "failing", "done"}
         /\ operation[o].searchedLocations < operation[o].totalLocations
         /\ (Done(o) /\ ghost[o].cancelledFrom = "none" /\ ~ghost[o].escaped)
              => operation[o].status = "completed"

\* C8: an operation is failed only if an exception escaped the per-variant,
\* per-location and per-enrichment handlers.
C8_Containment ==
  \A o \in Uuids : operation[o].status = "failed" => ghost[o].escaped

C8_Witness ==
  \E o \in Uuids :
    /\ operation[o].kind = "global" /\ Done(o) /\ operation[o].status = "completed"
    /\ ghost[o].providerThrew /\ ghost[o].cancelledFrom = "none"
    /\ ghost[o].storeFault /\ ~ghost[o].escaped
    /\ worker[o].consecutiveFailures >= 1

\* C9: a multi-location run with expansion, filtering and enrichment disabled,
\* not cancelled, in which the provider threw for some location, ends completed
\* with progress 1.0, every planned location searched, and totalResults the sum
\* of the results the gateway returned for the other locations.
C9_ProviderThrowTolerated ==
  \A o \in Uuids :
    (/\ operation[o].kind = "global" /\ Done(o) /\ operation[o].status # "none"
     /\ AllDisabled(o) /\ Undisturbed(o) /\ ghost[o].providerThrew)
      => /\ operation[o].status = "completed"
         /\ operation[o].progress = <<1, 1>>
         /\ operation[o].searchedLocations = Len(worker[o].locations)
         /\ operation[o].searchedLocations = operation[o].totalLocations
         /\ operation[o].totalResults = ghost[o].expected

C9_Witness ==
  \E o \in Uuids :
    /\ operation[o].kind = "global" /\ Done(o) /\ operation[o].status = "completed"
    /\ AllDisabled(o) /\ Undisturbed(o) /\ ghost[o].providerThrew
    /\ operation[o].totalLocations >= 2 /\ operation[o].totalResults >= 1

ZeroLocations(o) ==
  operation[o].kind = "global" /\ operation[o].status # "none"
  /\ operation[o].totalLocations = 0

Sorted(locations) ==
  \A i, j \in 1..Len(locations) : i < j => ~Before(locations[j], locations[i])

\* C11: from construction or reset(), with the list and the blacklist left
\* alone, the k-th getNextLocation call returns the k-th entry of the list,
\* counted cyclically, and the list is in (priority desc, successRate desc)
\* order: |L| calls return every location once, further calls repeat.
C11_CyclicWalk ==
  manager.inOrder
    => /\ Sorted(locationQueue.locations)
       /\ \A k \in 1..Len(manager.walk) :
            manager.walk[k] =
              locationQueue.locations[((k - 1) % Len(locationQueue.locations)) + 1].id

C11_Witness ==
  /\ manager.inOrder
  /\ Len(locationQueue.locations) >= 3
  /\ Len(manager.walk) > Len(locationQueue.locations)
  /\ locationQueue.locations[2].rate[1] > 0

\* C12: getNextLocation never returns a blacklisted location, skips at most
\* len(locations) entries, and returns none exactly when every location of
\* the list is blacklisted (so one location leaving the blacklist makes the
\* next call return a location).
C12_NeverBlacklisted ==
  LET last == manager.last
  IN /\ last.returned \notin last.blacklisted
     /\ last.attempts <= last.size
     /\ manager.calls > 0 /\ last.size > 0
          => (last.returned = 0
                <=> {locationQueue.locations[k].id : k \in 1..last.size}
                      \subseteq last.blacklisted)

C12_Witness ==
  /\ manager.last.returned # 0
  /\ manager.last.attempts >= 2
  /\ Cardinality(manager.last.blacklisted) = manager.last.size - 1
  /\ \E l \in LocIds : blacklistTimers[l] = 0 /\ locationRows[l].total > 0

\* C13: after n >= 1 updateLocationSuccess calls for a location, k of them
\* successes, the stored row has total_searches = n, successful_searches = k
\* and success_rate = k / n, within [0, 1], and the list in memory carries it.
C13_SuccessRate ==
  \A l \in LocIds :
    manager.outcomes[l][1] >= 1
      => LET n == manager.outcomes[l][1]
             k == manager.outcomes[l][2]
             row == locationRows[l]
         IN /\ row.total = n /\ row.succ = k
            /\ row.rate[1] * n = k * row.rate[2]
            /\ 0 <= row.rate[1] /\ row.rate[1] <= row.rate[2] /\ row.rate[2] > 0
            /\ \E i \in 1..Len(locationQueue.locations) :
                 /\ locationQueue.locations[i].id = l
                 /\ locationQueue.locations[i].rate = row.rate

C13_Witness ==
  \E l \in LocIds :
    /\ manager.outcomes[l] = <<2, 1>>
    /\ locationRows[l].rate[1] * 2 = locationRows[l].rate[2]
    /\ locationRows[l].succ = 1

\* C14: while the timer of the latest blacklistLocation(l) call is pending and
\* the blacklist was not cleared since that call, l is blacklisted.
C14_NoStacking ==
  \A l \in LocIds :
    (blacklistTimers[l] > 0 /\ manager.current[l])
      => l \in locationQueue.blacklistedLocations

\* C15: when the engine asked has failed (not configured, rate-limited, or a
\* request error), what SearchEngineManager.search gives its caller is not
\* what a successful search with no results gives: an empty result list.
C15_FailureDistinct ==
  (call.fn = "search" /\ call.cause # "ok")
    => ~(call.kind = "ok" /\ call.results = <<>>)

\* C16: within one window at most RateLimitPoints search calls reach the HTTP
\* request, and a call made when the points are used up is rejected as
\* rate-limited without a request.
C16_FailFast ==
  /\ rateLimiter.requests <= RateLimitPoints
  /\ (call.fn = "search" /\ call.cause # "notConfigured"
        /\ call.consumedBefore >= RateLimitPoints)
       => call.cause = "rateLimited" /\ ~call.requested

C16_Witness ==
  /\ call.fn = "search" /\ call.cause = "rateLimited"
  /\ rateLimiter.requests = RateLimitPoints
  /\ rateLimiter.consumed = RateLimitPoints + 1

\* C17: getSearchProgress reports estimatedTimeRemaining 0 for a completed,
\* failed or cancelled operation, nothing for a non-terminal one with no
\* location searched, and otherwise elapsed / searchedLocations *
\* (totalLocations - searchedLocations), to the nearest millisecond.
C17_EstimatedTime ==
  call.fn = "getSearchProgress"
    => LET record == call.record
           estimate == call.estimatedTimeRemaining
           remaining == record.totalLocations - record.searchedLocations
       IN IF record.status \in Terminal THEN estimate = Defined(0)
          ELSE IF record.searchedLocations = 0 THEN estimate = Undefined
          ELSE /\ estimate.defined
               /\ 2 * (estimate.value * record.searchedLocations
                        - call.elapsed * remaining) <= record.searchedLocations
               /\ 2 * (call.elapsed * remaining
                        - estimate.value * record.searchedLocations)
                    <= record.searchedLocations

\* the indices of results whose normalized URL no earlier result carries
Firsts(results) ==
  {i \in 1..Len(results) :
     \A j \in 1..(i - 1) : normalizeUrl(results[j]) # normalizeUrl(results[i])}

RECURSIVE KeepFirsts(_, _)
KeepFirsts(results, i) ==
  IF i > Len(results) THEN <<>>
  ELSE (IF i \in Firsts(results) THEN <<results[i]>> ELSE <<>>)
       \o KeepFirsts(results, i + 1)

\* C18: deduplication applied to its own output changes nothing; its output
\* is the first occurrence of every normalized URL, in input order, and holds
\* no two results with the same normalized URL.
C18_Deduplication ==
  call.fn = "deduplicateResults"
    => /\ call.again = call.unique
       /\ call.unique = KeepFirsts(call.results, 1)
       /\ \A i, j \in 1..Len(call.unique) :
            i # j => normalizeUrl(call.unique[i]) # normalizeUrl(call.unique[j])

C18_Witness ==
  /\ call.fn = "deduplicateResults"
  /\ Len(call.results) = 3 /\ Len(call.unique) = 2
  /\ call.results[1].valid /\ call.results[1].query # call.results[3].query
  /\ normalizeUrl(call.results[1]) = normalizeUrl(call.results[3])

\* C19: the relevance score is a number within [0, 1] for every input,
\* queries without a term of more than two characters included.
C19_ScoreInRange ==
  call.fn = "calculateRelevanceScore"
    => /\ ~call.relevanceScore.nan
       /\ 0 <= call.relevanceScore.value
       /\ call.relevanceScore.value <= ScoreUnit

\* C20: when the filter response holds no JSON, invalid JSON, or JSON without
\* a relevantIndices list, all results are returned and removedCount is 0.
C20_FailOpen ==
  (/\ call.fn = "parseResultFilterResponse"
   /\ (call.content.json # "object" \/ call.content.relevantIndices # "list"))
    => /\ call.response.filteredResults = AllIndices(call.length)
       /\ call.response.removedCount = 0

\* a progress value <<numerator, denominator>> is 1.0
Whole(progress) == progress[1] = progress[2]

\* C21: while the status of an operation is running its progress never
\* decreases; progress changes only to i / totalLocations for the index i of a
\* location, to a larger value each time, or to 1.0, and it becomes 1.0 only in
\* a step that leaves the status completed.
C21_ProgressMonotone ==
  [][\A o \in Uuids :
       LET old == operation[o].progress
           new == operation'[o].progress
       IN /\ operation[o].status = "running"
               => new[1] * old[2] >= old[1] * new[2]
          /\ new[1] * old[2] # old[1] * new[2]
               => /\ new[1] * old[2] > old[1] * new[2]
                  /\ \/ Whole(new)
                     \/ /\ new[2] = operation'[o].totalLocations
                        /\ new[1] \in 0..(new[2] - 1)
                        /\ operation'[o].currentLocation = worker'[o].locations[new[1] + 1]
          /\ (Whole(new) /\ ~Whole(old)) => operation'[o].status = "completed"]_vars

C21_Witness ==
  \E o \in Uuids :
    /\ operation[o].status = "running" /\ operation[o].totalLocations = 3
    /\ operation[o].progress = <<2, 3>>

\* C22: in every state reached, of every operation and of every stored record,
\* 0 <= searchedLocations <= totalLocations, and totalLocations does not change
\* once the operation, or the record, is created.
C22_SearchedWithinTotal ==
  [][/\ \A o \in Uuids :
          /\ 0 <= operation'[o].searchedLocations
          /\ operation'[o].searchedLocations <= operation'[o].totalLocations
          /\ operation[o].status # "none"
               => operation'[o].totalLocations = operation[o].totalLocations
     /\ \A r \in Uuids :
          /\ searchOperations'[r] # NoRecord
               => /\ 0 <= searchOperations'[r].searchedLocations
                  /\ searchOperations'[r].searchedLocations
                       <= searchOperations'[r].totalLocations
          /\ searchOperations[r] # NoRecord
               => /\ searchOperations'[r] # NoRecord
                  /\ searchOperations'[r].totalLocations
                       = searchOperations[r].totalLocations]_vars

C22_Witness ==
  \E o \in Uuids :
    /\ operation[o].kind = "global" /\ operation[o].totalLocations = 3
    /\ operation[o].searchedLocations = 3
    /\ \E r \in Uuids : /\ searchOperations[r] # NoRecord
                         /\ searchOperations[r].totalLocations = 3

\* C23: every multi-location operation whose processing has started reaches
\* a terminal status and leaves the active set, whichever store write throws.
C23_EventuallyTerminal ==
  \A o \in Uuids :
    (operation[o].kind = "global" /\ operation[o].status = "running")
      ~> (operation[o].status \in Terminal /\ o \notin activeOperations)

\* the ids of the first min(maxLocations or 10, number of non-blacklisted
\* locations) entries of the list that are not blacklisted
Snapshot(q, maxLocations) ==
  LET eligible == SelectSeq(q.locations, LAMBDA x : x.id \notin q.blacklistedLocations)
      limit == IF maxLocations # 0 THEN maxLocations ELSE DefaultMaxLocations
  IN [k \in 1..Min(limit, Len(eligible)) |-> eligible[k].id]

\* C24: the work queue of a multi-location operation is taken once, when
\* getLocations returns at submission: the first min(maxLocations or 10, number
\* of non-blacklisted locations) locations of the sorted list; it never changes
\* afterwards, whatever is re-sorted or blacklisted meanwhile; the run visits
\* it one location at a time in its order, and a run that completes without
\* abort, cancellation or escaping exception has visited all of it.
C24_QueueSnapshot ==
  [][\A o \in Uuids :
       LET w == worker[o]
           v == worker'[o]
       IN /\ (w.pc = "getLocations" /\ v.pc # "getLocations")
               => /\ Sorted(locationQueue.locations)
                  /\ v.locations = Snapshot(locationQueue, operation[o].config.maxLocations)
          /\ w.pc \notin {"idle", "getLocations"}
               => /\ v.locations = w.locations
                  /\ operation'[o].status # "none"
                       => operation'[o].totalLocations = Len(w.locations)
                  /\ v.i \in {w.i, w.i + 1}
          /\ ghost'[o].searchCalls # ghost[o].searchCalls
               => /\ v.i < Len(v.locations)
                  /\ operation'[o].currentLocation = v.locations[v.i + 1]
          /\ (/\ v.pc = "done" /\ operation'[o].status = "completed"
              /\ ghost'[o].cancelledFrom = "none" /\ ~ghost'[o].escaped
              /\ ~AbortReached(v.consecutiveFailures))
               => v.i = Len(v.locations)]_vars

C24_Witness ==
  \E o \in Uuids :
    /\ Done(o) /\ operation[o].status = "completed"
    /\ operation[o].config.maxLocations = 2
    /\ worker[o].locations = <<1, 2>> /\ worker[o].i = 2
    /\ Len(locationQueue.locations) = 3
    /\ locationQueue.locations[2].id = 3
    /\ manager.outcomes[3] = <<1, 1>>
    /\ operation[o].searchedLocations = 2

\* C25: with tasks interleaving at their awaits only, once every
\* updateLocationSuccess call has returned the stored row of each location has
\* total_searches = the number of calls made for it and successful_searches =
\* the number of successful ones among them.
C25_NoLostUpdate ==
  (\A o \in Uuids : worker[o].pc = "idle")
    => \A l \in LocIds :
         /\ locationRows[l].total = manager.outcomes[l][1]
         /\ locationRows[l].succ = manager.outcomes[l][2]

\* three calls for one location have returned, one of them made while another
\* was suspended at an await
C25_Witness ==
  /\ \A o \in Uuids : worker[o].pc = "idle"
  /\ manager.overlapped
  /\ \E l \in LocIds : manager.outcomes[l] = <<3, 2>> /\ locationRows[l].total = 3

\* C26: the default catalog is seeded exactly when the store has no active
\* location, and once: a store that had active locations is left as it was,
\* and when every first-use call made has returned, however the calls
\* overlapped, the store holds one copy of each default location.
C26_SeededOnce ==
  /\ seed.had => \A d \in 1..CatalogSize : seed.copies[d] = 1
  /\ (/\ \A c \in 1..MaxCallers : seed.callers[c].pc \in {"idle", "returned"}
      /\ \E c \in 1..MaxCallers : seed.callers[c].pc = "returned")
       => \A d \in 1..CatalogSize : seed.copies[d] = 1

\* C27: the consecutive-failure counter rises by one when the catch block of a
\* location is entered, returns to zero when a location is processed to its
\* end without a location-level exception (with or without results), and
\* changes in no other step; a run that completes without reaching three
\* (not cancelled, no exception escaping) has processed every planned location.
C27_ConsecutiveFailures ==
  [][\A o \in Uuids :
       LET w == worker[o]
           v == worker'[o]
           caught == v.pc = "failstat" /\ w.pc # "failstat"
           processed == w.pc = "counted" /\ ~w.exc /\ v.pc # "counted"
       IN /\ caught => v.consecutiveFailures = w.consecutiveFailures + 1
          /\ processed => v.consecutiveFailures = 0
          /\ v.consecutiveFailures # w.consecutiveFailures => caught \/ processed
          /\ (/\ v.pc = "done" /\ operation'[o].status = "completed"
              /\ operation'[o].kind = "global"
              /\ ghost'[o].cancelledFrom = "none" /\ ~ghost'[o].escaped
              /\ ~AbortReached(v.consecutiveFailures))
               => v.i = Len(v.locations)]_vars

\* three locations: the first failed, the second was processed with no
\* result, the third failed; the run is completed with zero results, no error
C27_Witness ==
  \E o \in Uuids :
    /\ Done(o) /\ operation[o].status = "completed" /\ operation[o].kind = "global"
    /\ operation[o].totalLocations = 3 /\ worker[o].i = 3
    /\ operation[o].totalResults = 0 /\ ~operation[o].error
    /\ worker[o].consecutiveFailures = 1
    /\ operation[o].searchedLocations = 2
    /\ {worker[o].locations[1], worker[o].locations[3]}
         \subseteq locationQueue.blacklistedLocations
    /\ worker[o].locations[2] \notin locationQueue.blacklistedLocations

C29_BestEffortExpansion ==
  [][\A o \in Uuids :
       LET v == worker'[o]
           g == ghost'[o]
           cfg == operation'[o].config
           alone == \/ ~cfg.enableQueryExpansion \/ ~env.aiAvailable
                    \/ g.expansion = "threw"
       IN operation'[o].status # "none"
            => /\ Head(v.queries) = 0
               /\ g.searchCalls # ghost[o].searchCalls
                    => /\ g.query = v.queries[v.q + 1]
                       /\ worker[o].pc \in {"running", "expanding", "locating"}
                            => g.query = 0
               /\ (alone /\ v.pc \notin {"created", "running", "expanding"})
                    => v.queries = <<0>> /\ g.query = 0
               /\ (~cfg.enableQueryExpansion \/ ~env.aiAvailable)
                    => g.expansion = "none"
               /\ (v.pc = "done" /\ ~g.storeFault /\ g.returned # "threw"
                   /\ operation'[o].status = "failed")
                    => FALSE]_vars

\* a multi-location run whose expandQuery call threw: every location was
\* searched with the original query, results were found, the run is completed
C29_Witness ==
  \E o \in Uuids :
    /\ Done(o) /\ operation[o].status = "completed" /\ operation[o].kind = "global"
    /\ ghost[o].expansion = "threw"
    /\ operation[o].totalLocations = 2 /\ ghost[o].searchCalls = 2
    /\ operation[o].totalResults >= 1

\* C30: when a multi-location run has ended completed, the operation's totalResults is
\* the sum, over the locations that were processed without a location-level
\* failure, of the number of results kept after filtering.
C30_TotalResultsKept ==
  \A o \in Uuids :
    (Done(o) /\ operation[o].kind = "global" /\ operation[o].status = "completed")
      => operation[o].totalResults = ghost[o].kept

\* C31: when the process has been started again (identifiers were handed out,
\* and no call of the running process has been made), no operation record of
\* the store is pending or running: the active set is empty, so every such
\* record would be one without a matching in-memory entry.
C31_NoOrphanedRecord ==
  (uuidCount > 0 /\ Submitted = {})
    => /\ activeOperations = {}
       /\ \A r \in Uuids : searchOperations[r].status \notin {"pending", "running"}

\* C32: at most ApolloPoints requests reach the Apollo API within one window,
\* over any sequence of searchPeople, getPersonByEmail and enrichContact calls.
C32_ApolloRequestLimit == apollo.requests <= ApolloPoints

\* C34: enrichContact returns null only when the Apollo API answered and no
\* matching contact was found; a rate-limit rejection or a failed request of
\* the people search is not answered with null.
C34_NullMeansAbsent ==
  (apollo.last.fn = "enrichContact" /\ apollo.last.result = "null")
    => apollo.last.cause = "answered"

\* C33: the results parseResultFilterResponse keeps are elements of its input,
\* none is kept more than once, and removedCount is not negative, whatever
\* list of indices the provider answers.
C33_FilteredSubset ==
  call.fn = "parseResultFilterResponse"
    => LET kept == call.response.filteredResults
       IN /\ \A k \in 1..Len(kept) : kept[k] \in 0..(call.length - 1)
          /\ \A j, k \in 1..Len(kept) : kept[j] = kept[k] => j = k
          /\ call.response.removedCount >= 0

\* C35: one multi-location run, started on a store in which no location has
\* been searched, visits each location of its queue at most once and reports
\* one outcome per visit: totalSearches of a location is at most 1, and it is
\* successfulSearches plus the one failure if there is one.
C35_OneOutcomePerAttempt ==
  \A l \in LocIds : locationRows[l].total <= 1

\* C36: every operation in the active set has the in-memory status pending or
\* running.
C36_ActiveIsLive ==
  \A o \in activeOperations : operation[o].status \in {"pending", "running"}

\* C37: when an exception reaches handleOperationError for an operation that
\* cancelSearch has removed from the active set, the handler returns without
\* a store call and changes neither the operation, nor the store, nor the
\* active set: the status is not replaced by failed.
C37_HandlerSkipsCancelled ==
  [][\A o \in Uuids :
       (/\ worker[o].exc
        /\ worker[o].pc \in {"running", "locating", "failstat", "completing"}
        /\ o \notin activeOperations /\ ghost[o].cancelledFrom # "none"
        /\ worker'[o] # worker[o])
         => /\ worker'[o].pc = "done"
            /\ operation'[o] = operation[o]
            /\ searchOperations' = searchOperations
            /\ activeOperations' = activeOperations]_vars

\* a running operation was cancelled, cancelSearch returned true, a store write
\* of the worker threw afterwards and escaped to the handler: the task has
\* ended and the status is cancelled
C37_Witness ==
  \E o \in Uuids :
    /\ Done(o) /\ operation[o].status = "cancelled" /\ o \notin activeOperations
    /\ ghost[o].cancelledFrom = "running" /\ ghost[o].escaped
    /\ lastCancel = [id |-> o, result |-> "true"]

\* C38: when the call that created an operation has returned or thrown and its
\* task has ended, an operation that is still in the active set has a record
\* in the store (under whatever key the store gave it).
C38_ActiveHasRecord ==
  \A o \in activeOperations :
    Done(o) => \E r \in Uuids : searchOperations[r].status # "absent"

\* C40: the profiles persisted for one location of one operation have
\* pairwise different normalized URLs.
C40_OneProfilePerUrl ==
  call.fn = "storeLocationResults"
    => \A j, k \in 1..Len(call.profiles) :
         normalizeUrl(call.profiles[j]) = normalizeUrl(call.profiles[k]) => j = k

\* C39: once every updateLocationSuccess call made has returned, the list in
\* memory is the list of the active stored locations with their stored
\* counts and rates, sorted by priority and success rate, also when calls
\* overlapped at their awaits.
C39_ListAgreesWithStore ==
  (\A o \in Uuids : worker[o].pc = "idle")
    => /\ locationQueue.locations = SortLocations(dbGetLocations(locationRows))
       /\ Sorted(locationQueue.locations)

\* two overlapping calls, a failure at the second location and a success at
\* the third, have returned: the third location has moved ahead of the second
C39_Witness ==
  /\ \A o \in Uuids : worker[o].pc = "idle"
  /\ manager.overlapped /\ manager.calls = 2
  /\ manager.outcomes[2] = <<1, 0>> /\ manager.outcomes[3] = <<1, 1>>
  /\ Len(locationQueue.locations) = 3 /\ locationQueue.locations[2].id = 3

====
